---- MODULE Spec2Model ----
(***************************************************************************)
(* Model of the PowerPoint documentation extractor (src/doc_updates.py,    *)
(* src/streamlit_app.py): the colour classifier, the per-slide extractors, *)
(* the per-deck aggregator and the callers that collect the deck records.  *)
(***************************************************************************)
EXTENDS Integers, Sequences, FiniteSets, TLC

VARIABLES
    call,            \* name of the pure function under call ("" when none is)
    arg,             \* its argument
    ret,             \* its return value, Pending until the call has returned
    pc,              \* where the caller's loop over the decks stands (the loop
                     \* of process_all_ppt_files and that of process_files)
    decks,           \* the decks handed to extract_all_content_from_ppt so far,
                     \* in call order, each with the slides enumerated so far
    all_vocabulary,  \* the five running lists of the call in progress
    session_goals,
    assessments,
    careers,
    materials,
    content,         \* the record the last call returned
    returned,        \* every record returned so far, in call order
    all_content      \* the caller's mapping from filename to record

pure_vars == <<call, arg, ret>>
deck_vars == <<pc, decks, all_vocabulary, session_goals, assessments,
               careers, materials, content, returned, all_content>>
vars == <<call, arg, ret, pc, decks, all_vocabulary, session_goals,
          assessments, careers, materials, content, returned, all_content>>

\* A call that has not returned yet.
Pending == [kind |-> "Pending"]
\* A call that returned v.
Returned(v) == [kind |-> "Returned", value |-> v]

(***************************************************************************)
(* Text.  A Python str is a TLA+ string; offsets are Python's (0-based),   *)
(* so s[a:b] is slice(s, a, b).  The module is ASCII, so the non-ASCII     *)
(* glyphs the code names are written with stand-ins that occur nowhere     *)
(* else in a sample text: U+2022 (bullet) is "@", U+00B7 (middle dot) is   *)
(* "~", U+25E6 (white bullet) is "^", U+00A9 (copyright sign) is "|",      *)
(* U+2013 (en dash) is "{", U+2014 (em dash) is "}".                       *)
(***************************************************************************)
Char(s, i) == SubSeq(s, i + 1, i + 1)
slice(s, a, b) == SubSeq(s, a + 1, b)
Chars(s) == {Char(s, i) : i \in 0..(Len(s) - 1)}

Min(S) == CHOOSE x \in S : \A y \in S : x <= y
Max(S) == CHOOSE x \in S : \A y \in S : x >= y

\* str.isspace characters (string.whitespace)
Whitespace == {" ", "\t", "\n", "\r", "\f"}
Digits == {"0", "1", "2", "3", "4", "5", "6", "7", "8", "9"}
UpperLetters == "ABCDEFGHIJKLMNOPQRSTUVWXYZ"
LowerLetters == "abcdefghijklmnopqrstuvwxyz"
\* the characters of '•·-*◦'
BulletGlyphs == {"@", "~", "-", "*", "^"}

UpperSet == {Char(UpperLetters, i) : i \in 0..25}
LowerSet == {Char(LowerLetters, i) : i \in 0..25}
ToLower == [c \in UpperSet |-> Char(LowerLetters, CHOOSE i \in 0..25 : Char(UpperLetters, i) = c)]

IsUpper(c) == c \in UpperSet
IsLower(c) == c \in LowerSet
\* \w of the re module on the characters of the samples
IsWordChar(c) == IsUpper(c) \/ IsLower(c) \/ c \in Digits \/ c = "_"

LowerChar(c) == IF c \in UpperSet THEN ToLower[c] ELSE c

\* str.lower
RECURSIVE lower(_)
lower(s) ==
    IF s = "" THEN "" ELSE LowerChar(Char(s, 0)) \o lower(slice(s, 1, Len(s)))

\* str.lstrip(chars) and str.strip()
lstrip(s, chars) ==
    LET keep == {i \in 0..(Len(s) - 1) : Char(s, i) \notin chars}
    IN  IF keep = {} THEN "" ELSE slice(s, Min(keep), Len(s))

strip(s) ==
    LET keep == {i \in 0..(Len(s) - 1) : Char(s, i) \notin Whitespace}
    IN  IF keep = {} THEN "" ELSE slice(s, Min(keep), Max(keep) + 1)

startswith(s, prefix) ==
    Len(prefix) <= Len(s) /\ slice(s, 0, Len(prefix)) = prefix
endswith(s, suffix) ==
    Len(suffix) <= Len(s) /\ slice(s, Len(s) - Len(suffix), Len(s)) = suffix

\* line.startswith(('•', '·', '-', '*', '◦'))
StartsWithBullet(s) == s # "" /\ Char(s, 0) \in BulletGlyphs

\* sub in s
contains(s, sub) ==
    \E i \in 0..(Len(s) - Len(sub)) : slice(s, i, i + Len(sub)) = sub

\* str.split(sep) for a one-character sep: the pieces between, empty ones kept
RECURSIVE split(_, _)
split(s, sep) ==
    LET at == {i \in 0..(Len(s) - 1) : Char(s, i) = sep}
    IN  IF at = {} THEN <<s>>
        ELSE <<slice(s, 0, Min(at))>> \o split(slice(s, Min(at) + 1, Len(s)), sep)

split_lines(s) == split(s, "\n")

\* len(s.split()): the number of maximal runs of non-whitespace
WordCount(s) ==
    Cardinality({i \in 0..(Len(s) - 1) :
        /\ Char(s, i) \notin Whitespace
        /\ (i = 0 \/ Char(s, i - 1) \in Whitespace)})

\* str.isdigit
isdigit(s) == s # "" /\ \A i \in 0..(Len(s) - 1) : Char(s, i) \in Digits

\* str.find(sub): the least offset of sub in s, or -1
find(s, sub) ==
    LET at == {i \in 0..(Len(s) - Len(sub)) : slice(s, i, i + Len(sub)) = sub}
    IN  IF at = {} THEN -1 ELSE Min(at)

\* sep.join(parts)
RECURSIVE join(_, _)
join(sep, parts) ==
    IF parts = <<>> THEN ""
    ELSE IF Len(parts) = 1 THEN parts[1]
    ELSE parts[1] \o sep \o join(sep, Tail(parts))

join_lines(parts) == join("\n", parts)

\* any(fragment in s for fragment in list)
AnyIn(list, s) == \E k \in 1..Len(list) : contains(s, list[k])

\* x in list
InList(x, list) == \E i \in 1..Len(list) : list[i] = x

(***************************************************************************)
(* Regular expressions.  A pattern is a sequence of elements: a literal    *)
(* (matched ignoring case, as every search of the code passes              *)
(* re.IGNORECASE), an optional character (c?), a character of a class      *)
(* ([..]), \s*, \s+, \d+, \b, ^ and $.                                     *)
(* The greedy quantifiers of the code's patterns are each followed by an   *)
(* element that cannot start with what they consume, so matching is left   *)
(* to right without backtracking.  NoMatch is a failed match.              *)
(***************************************************************************)
Lit(s) == [t |-> "lit", s |-> s]
Opt(c) == [t |-> "opt", s |-> c]
OneOf(cs) == [t |-> "set", s |-> cs]
OptWs == [t |-> "ws*", s |-> ""]
Ws == [t |-> "ws+", s |-> ""]
Num == [t |-> "d+", s |-> ""]
WordBoundary == [t |-> "\\b", s |-> ""]
Bol == [t |-> "^", s |-> ""]
Eol == [t |-> "$", s |-> ""]

NoMatch == -1

\* the offset after the longest run of characters of cls that starts at i
SpanEnd(s, i, cls) ==
    LET stops == {j \in i..(Len(s) - 1) : Char(s, j) \notin cls}
    IN  IF stops = {} THEN IF i > Len(s) THEN i ELSE Len(s) ELSE Min(stops)

AtWordBoundary(s, i) ==
    LET before == i > 0 /\ IsWordChar(Char(s, i - 1))
        after == i < Len(s) /\ IsWordChar(Char(s, i))
    IN  before # after

\* the end offset of the match of pat[k..] at offset i of s, or NoMatch
RECURSIVE MatchFrom(_, _, _, _)
MatchFrom(pat, k, s, i) ==
    IF k > Len(pat) THEN i
    ELSE LET e == pat[k] IN
        CASE e.t = "lit" ->
                IF i + Len(e.s) <= Len(s) /\ lower(slice(s, i, i + Len(e.s))) = lower(e.s)
                THEN MatchFrom(pat, k + 1, s, i + Len(e.s)) ELSE NoMatch
          [] e.t = "opt" ->
                IF i < Len(s) /\ LowerChar(Char(s, i)) = LowerChar(e.s)
                THEN MatchFrom(pat, k + 1, s, i + 1)
                ELSE MatchFrom(pat, k + 1, s, i)
          [] e.t = "set" ->
                IF i < Len(s) /\ contains(e.s, Char(s, i))
                THEN MatchFrom(pat, k + 1, s, i + 1) ELSE NoMatch
          [] e.t = "ws*" -> MatchFrom(pat, k + 1, s, SpanEnd(s, i, Whitespace))
          [] e.t = "ws+" ->
                IF SpanEnd(s, i, Whitespace) > i
                THEN MatchFrom(pat, k + 1, s, SpanEnd(s, i, Whitespace)) ELSE NoMatch
          [] e.t = "d+" ->
                IF SpanEnd(s, i, Digits) > i
                THEN MatchFrom(pat, k + 1, s, SpanEnd(s, i, Digits)) ELSE NoMatch
          [] e.t = "\\b" ->
                IF AtWordBoundary(s, i) THEN MatchFrom(pat, k + 1, s, i) ELSE NoMatch
          [] e.t = "^" -> IF i = 0 THEN MatchFrom(pat, k + 1, s, i) ELSE NoMatch
          [] e.t = "$" ->
                IF i = Len(s) \/ (i = Len(s) - 1 /\ Char(s, i) = "\n")
                THEN MatchFrom(pat, k + 1, s, i) ELSE NoMatch

\* re.match(pat, s): the end offset of the match at offset 0, or NoMatch
re_match(pat, s) == MatchFrom(pat, 1, s, 0)

\* re.search(pat, s, re.IGNORECASE): match.end() of the leftmost match, or NoMatch
re_search(pat, s) ==
    LET starts == {i \in 0..Len(s) : MatchFrom(pat, 1, s, i) # NoMatch}
    IN  IF starts = {} THEN NoMatch ELSE MatchFrom(pat, 1, s, Min(starts))

\* any(re.search(pat, s, re.IGNORECASE) for pat in patterns)
AnySearch(patterns, s) ==
    \E k \in 1..Len(patterns) : re_search(patterns[k], s) # NoMatch

(***************************************************************************)
(* Colour values.  python-pptx hands the classifier an RGBColor or None.   *)
(***************************************************************************)
None == [kind |-> "None"]
RGBColor(r, g, b) == [kind |-> "RGBColor", red |-> r, green |-> g, blue |-> b]

abs(x) == IF x < 0 THEN -x ELSE x

\* self.blue_color_ranges: (r_min, g_min, b_min, r_max, g_max, b_max)
blue_color_ranges ==
    << <<0, 0, 200, 255, 255, 255>>,
       <<0, 100, 150, 100, 255, 255>>,
       <<0, 150, 200, 150, 255, 255>>,
       <<30, 144, 255, 70, 180, 255>>,
       <<0, 191, 255, 50, 220, 255>>,
       <<64, 224, 208, 100, 255, 230>> >>

\* The loop over blue_color_ranges: true when some box contains (r, g, b).
InBlueRange(r, g, b) ==
    \E i \in 1..Len(blue_color_ranges) :
        LET box == blue_color_ranges[i] IN
            /\ box[1] <= r /\ r <= box[4]
            /\ box[2] <= g /\ g <= box[5]
            /\ box[3] <= b /\ b <= box[6]

\* A variant that decides the white and grey exclusions before the boxes.
is_blue_color_ExclusionsFirst(rgb) ==
    IF rgb.kind # "RGBColor" THEN FALSE
    ELSE LET r == rgb.red
             g == rgb.green
             b == rgb.blue
         IN  IF r > 200 /\ g > 200 /\ b > 200 THEN FALSE
             ELSE IF abs(r - g) < 10 /\ abs(g - b) < 10 /\ abs(r - b) < 10 THEN FALSE
             ELSE IF InBlueRange(r, g, b) THEN TRUE
             ELSE IF b > r + 50 /\ b > g + 50 /\ b > 120 THEN TRUE
             ELSE IF g > 150 /\ b > 150 /\ r < 80 THEN TRUE
             ELSE IF b > 180 /\ b > r + 30 /\ b > g + 30 THEN TRUE
             ELSE FALSE

\* is_blue_color: None is not blue; otherwise the boxes, then the exclusions,
\* then the three dominance rules, each a return.
is_blue_color(rgb) ==
    IF rgb.kind = "None" THEN FALSE
    ELSE LET r == rgb.red
             g == rgb.green
             b == rgb.blue
         IN  IF InBlueRange(r, g, b) THEN TRUE
             ELSE IF r > 200 /\ g > 200 /\ b > 200 THEN FALSE
             ELSE IF abs(r - g) < 10 /\ abs(g - b) < 10 /\ abs(r - b) < 10 THEN FALSE
             ELSE IF b > r + 50 /\ b > g + 50 /\ b > 120 THEN TRUE
             ELSE IF g > 150 /\ b > 150 /\ r < 80 THEN TRUE
             ELSE IF b > 180 /\ b > r + 30 /\ b > g + 30 THEN TRUE
             ELSE FALSE

(***************************************************************************)
(* The object graph python-pptx hands the extractors.  A run is            *)
(* [text, bold, color]; a paragraph is [runs, color]; a shape is           *)
(* [has_text_frame, paragraphs]; a slide is [shapes, fault]; a deck is     *)
(* [opens, theme, slides].  paragraph.text is the text of its runs in      *)
(* order, text_frame.text the paragraphs' texts joined by "\n".            *)
(***************************************************************************)
RECURSIVE ConcatText(_)
ConcatText(runs) ==
    IF runs = <<>> THEN "" ELSE Head(runs).text \o ConcatText(Tail(runs))

paragraph_text(paragraph) == ConcatText(paragraph.runs)

text_frame_text(shape) ==
    join_lines([k \in 1..Len(shape.paragraphs) |-> paragraph_text(shape.paragraphs[k])])

(***************************************************************************)
(* _clean_list_item, and the same two statements inlined in the goals and  *)
(* assessments extractors: drop a leading "<digits>." or "<digits>)" that  *)
(* is followed by whitespace, then leading bullet glyphs, then strip.      *)
(***************************************************************************)
ListNumbering == <<Bol, Num, OneOf(".)"), Ws>>

\* re.sub(r'^\d+[\.\)]\s+', '', text)
StripListNumbering(text) ==
    IF re_match(ListNumbering, text) = NoMatch THEN text
    ELSE slice(text, re_match(ListNumbering, text), Len(text))

\* a variant that also takes bare digits followed by a space as numbering
_clean_list_item_BareNumber(text) ==
    LET m == re_match(<<Bol, Num, Opt("."), Ws>>, text)
    IN  strip(lstrip(IF m = NoMatch THEN text ELSE slice(text, m, Len(text)),
                     BulletGlyphs))

_clean_list_item(text) == strip(lstrip(StripListNumbering(text), BulletGlyphs))

\* re.match(r'^\d+\.?\s+', line)
StartsWithNumber(line) == re_match(<<Bol, Num, Opt("."), Ws>>, line) # NoMatch

(***************************************************************************)
(* should_exclude_vocab, the filter of vocabulary terms.                   *)
(***************************************************************************)
IsAlnumLower(c) == IsLower(c) \/ c \in Digits

\* re.sub(r'[^a-z0-9]+', ' ', s): every run of other characters becomes one space
RECURSIVE CollapseNonAlnum(_, _)
CollapseNonAlnum(s, i) ==
    IF i >= Len(s) THEN ""
    ELSE (IF IsAlnumLower(Char(s, i)) THEN Char(s, i)
          ELSE IF i = 0 \/ IsAlnumLower(Char(s, i - 1)) THEN " "
          ELSE "") \o CollapseNonAlnum(s, i + 1)

_normalize_phrase(text) == strip(CollapseNonAlnum(lower(text), 0))

non_vocab_terms_normalized ==
    {"direct instruction", "procedure", "direct instruction procedure", "procedure safety",
     "direct instruction, procedure", "direct instruction , procedure",
     "vocab definition", "module guide", "assessment", "goals", "gather", "clean up",
     "summary", "fa kc", "activity lead in", "post test", "intro", "worksheet",
     "careers", "related careers", "materials", "session materials",
     "gather the following items", "gather the following item",
     "locate the following", "locate the",
     "insert slide type", "insert slide layout", "insert media description"}

placeholder_patterns ==
    <<"direct instruction", "procedure", "worksheet", "vocab definition",
      "activity lead in", "gather", "clean up", "summary", "goals",
      "assessment", "careers", "related careers", "materials",
      "session materials", "fa kc", "post test", "intro",
      "insert slide", "insert media", "insert layout", "objectives">>

placeholder_starts == <<"insert", "post", "direct", "procedure", "vocab", "gather", "clean">>

\* lines 109-118: the part is a placeholder
PartIsPlaceholder(part) ==
    \E k \in 1..Len(placeholder_patterns) :
        \/ contains(_normalize_phrase(part), placeholder_patterns[k])
        \/ contains(placeholder_patterns[k], _normalize_phrase(part))

should_exclude_vocab(text) ==
    LET clean_text == strip(text)
        normalized == _normalize_phrase(clean_text)
        parts == split(clean_text, ",")
    IN  \/ text = ""
        \/ Len(normalized) <= 2
        \/ Len(clean_text) <= 2
        \/ AnyIn(placeholder_patterns, normalized)
        \/ normalized \in non_vocab_terms_normalized
        \/ \E k \in 1..Len(placeholder_starts) :
               startswith(normalized, placeholder_starts[k] \o " ")
        \/ endswith(normalized, " worksheet")
        \/ endswith(normalized, " definition")
        \/ (contains(clean_text, ",")
            /\ \A k \in 1..Len(parts) : PartIsPlaceholder(strip(parts[k])))

(***************************************************************************)
(* The colour resolver.  A colour descriptor (font.color) is               *)
(* [type |-> "rgb", rgb], [type |-> "theme", theme_color, brightness] or   *)
(* [type |-> "none"]; hasattr(color, 'rgb') holds of the first only and    *)
(* hasattr(color, 'theme_color') of the second only.  A theme is           *)
(* [present, slots]: when the theme part is missing the lookup raises and  *)
(* the except clause returns None; slots maps 1..12 to a colour or None    *)
(* (a scheme colour without an rgb attribute).                             *)
(***************************************************************************)
resolve_theme_color_to_rgb(presentation, theme_color_idx, brightness) ==
    IF ~presentation.theme.present THEN None
    ELSE IF theme_color_idx \in 1..12
    THEN presentation.theme.slots[theme_color_idx]
    ELSE None

\* lines 160-168 and 172-178: the colour one font.color resolves to, or None
LayerColor(color, presentation) ==
    IF color.type = "rgb" THEN color.rgb
    ELSE IF color.type = "theme" /\ color.theme_color # 0
    THEN resolve_theme_color_to_rgb(presentation, color.theme_color, color.brightness)
    ELSE None

\* a variant in which a theme index on the run that does not resolve ends
\* the search instead of falling through to the paragraph
get_effective_color_NoFallThrough(run, paragraph, presentation) ==
    IF run.color.type # "none"
    THEN LayerColor(run.color, presentation)
    ELSE IF LayerColor(paragraph.color, presentation) # None
    THEN LayerColor(paragraph.color, presentation)
    ELSE resolve_theme_color_to_rgb(presentation, 1, 0)

get_effective_color(run, paragraph, presentation) ==
    IF LayerColor(run.color, presentation) # None
    THEN LayerColor(run.color, presentation)
    ELSE IF LayerColor(paragraph.color, presentation) # None
    THEN LayerColor(paragraph.color, presentation)
    ELSE resolve_theme_color_to_rgb(presentation, 1, 0)

(***************************************************************************)
(* extract_vocabulary_from_slide.                                          *)
(***************************************************************************)
\* a variant of the first loop in which a later qualifying run replaces the term
RECURSIVE ScanRuns_LastWins(_, _, _, _, _)
ScanRuns_LastWins(paragraph, presentation, k, vocab_word, definition_parts) ==
    IF k > Len(paragraph.runs)
    THEN [vocab_word |-> vocab_word, definition_parts |-> definition_parts]
    ELSE LET run == paragraph.runs[k]
             text == strip(run.text)
             is_blue == is_blue_color(get_effective_color(run, paragraph, presentation))
         IN  IF text = ""
             THEN ScanRuns_LastWins(paragraph, presentation, k + 1, vocab_word,
                                    definition_parts)
             ELSE IF is_blue /\ run.bold /\ ~should_exclude_vocab(text)
             THEN ScanRuns_LastWins(paragraph, presentation, k + 1, text,
                                    definition_parts)
             ELSE IF vocab_word # ""
             THEN ScanRuns_LastWins(paragraph, presentation, k + 1, vocab_word,
                                    Append(definition_parts, text))
             ELSE ScanRuns_LastWins(paragraph, presentation, k + 1, vocab_word,
                                    definition_parts)

\* the first loop over the runs (lines 247-281): vocab_word ("" for None)
\* and definition_parts after the runs from k on
RECURSIVE ScanRuns(_, _, _, _, _)
ScanRuns(paragraph, presentation, k, vocab_word, definition_parts) ==
    IF k > Len(paragraph.runs)
    THEN [vocab_word |-> vocab_word, definition_parts |-> definition_parts]
    ELSE LET run == paragraph.runs[k]
             text == strip(run.text)
             is_blue == is_blue_color(get_effective_color(run, paragraph, presentation))
         IN  IF text = ""
             THEN ScanRuns(paragraph, presentation, k + 1, vocab_word, definition_parts)
             ELSE IF is_blue /\ run.bold /\ vocab_word = "" /\ ~should_exclude_vocab(text)
             THEN ScanRuns(paragraph, presentation, k + 1, text, definition_parts)
             ELSE IF vocab_word # ""
             THEN ScanRuns(paragraph, presentation, k + 1, vocab_word,
                           Append(definition_parts, text))
             ELSE ScanRuns(paragraph, presentation, k + 1, vocab_word, definition_parts)

\* a variant of the test that does not consult the filter
BoldFallbackAccepts_Unfiltered(run) ==
    LET text == strip(run.text)
    IN  /\ text # ""
        /\ run.bold
        /\ 1 < WordCount(text) /\ WordCount(text) <= 3
        /\ \A i \in 0..(Len(text) - 1) : ~contains(".,!?;[]()", Char(text, i))
        /\ ~isdigit(text)
        /\ Len(text) > 2

\* the test of lines 287-292 on a run's stripped text
BoldFallbackAccepts(run) ==
    LET text == strip(run.text)
    IN  /\ text # ""
        /\ run.bold
        /\ ~should_exclude_vocab(text)
        /\ 1 < WordCount(text) /\ WordCount(text) <= 3
        /\ \A i \in 0..(Len(text) - 1) : ~contains(".,!?;[]()", Char(text, i))
        /\ ~isdigit(text)
        /\ Len(text) > 2

\* the second loop (lines 284-296): the first bold run that passes, or ""
BoldFallback(paragraph) ==
    LET hits == {k \in 1..Len(paragraph.runs) : BoldFallbackAccepts(paragraph.runs[k])}
    IN  IF hits = {} THEN "" ELSE strip(paragraph.runs[Min(hits)].text)

\* The ways '\s*[:-]?\s*(.+)' matches the text R that follows the term: a
\* white-space characters, t separator characters (0 or 1), b white-space
\* characters, then the group at offset a + t + b, which must hold a
\* character other than a newline.
DefinitionSplits(R) ==
    {x \in (0..Len(R)) \X {0, 1} \X (0..Len(R)) :
        /\ x[1] <= SpanEnd(R, 0, Whitespace)
        /\ x[2] = 1 => (x[1] < Len(R) /\ Char(R, x[1]) \in {":", "-"})
        /\ x[1] + x[2] + x[3] <= SpanEnd(R, x[1] + x[2], Whitespace)
        /\ x[1] + x[2] + x[3] < Len(R)
        /\ Char(R, x[1] + x[2] + x[3]) # "\n"}

\* the split the greedy quantifiers choose: the longest first white space,
\* then the separator taken rather than not, then the longest second white space
GreedySplit(R) ==
    CHOOSE x \in DefinitionSplits(R) : \A y \in DefinitionSplits(R) :
        \/ x[1] > y[1]
        \/ (x[1] = y[1] /\ x[2] > y[2])
        \/ (x[1] = y[1] /\ x[2] = y[2] /\ x[3] >= y[3])

\* re.search(f'{vocab_pattern}\\s*[:-]?\\s*(.+)', full_text, re.IGNORECASE):
\* match.group(1) at the leftmost occurrence of the term where the pattern
\* matches; matched is FALSE when there is none
VocabPatternSearch(vocab_word, full_text) ==
    LET n == Len(vocab_word)
        at == {i \in 0..(Len(full_text) - n) :
                  /\ lower(slice(full_text, i, i + n)) = lower(vocab_word)
                  /\ DefinitionSplits(slice(full_text, i + n, Len(full_text))) # {}}
    IN  IF at = {} THEN [matched |-> FALSE, group |-> ""]
        ELSE LET R == slice(full_text, Min(at) + n, Len(full_text))
                 x == GreedySplit(R)
                 p == x[1] + x[2] + x[3]
             IN  [matched |-> TRUE, group |-> slice(R, p, SpanEnd(R, p, {c \in Chars(R) : c # "\n"}))]

\* lines 313-317
TextAfterVocab(vocab_word, full_text) ==
    LET text_after_vocab ==
            strip(slice(full_text, find(lower(full_text), lower(vocab_word)) + Len(vocab_word),
                        Len(full_text)))
    IN  IF text_after_vocab # "" /\ Char(text_after_vocab, 0) \in {":", "-", "{", "}"}
        THEN strip(slice(text_after_vocab, 1, Len(text_after_vocab)))
        ELSE text_after_vocab

\* a variant that takes the definition from the runs after the term alone
VocabDefinition_PartsOnly(vocab_word, definition_parts, full_text) ==
    strip(join(" ", definition_parts))

\* lines 299-317: the definition of vocab_word in the paragraph
VocabDefinition(vocab_word, definition_parts, full_text) ==
    LET match == VocabPatternSearch(vocab_word, full_text)
    IN  IF match.matched THEN strip(match.group)
        ELSE IF strip(join(" ", definition_parts)) # ""
        THEN strip(join(" ", definition_parts))
        ELSE TextAfterVocab(vocab_word, full_text)

\* a variant that tries the bold-only pass before the emphasis pass
ParagraphVocabulary_FallbackFirst(paragraph, presentation) ==
    LET scan == ScanRuns(paragraph, presentation, 1, "", <<>>)
        vocab_word == IF BoldFallback(paragraph) # "" THEN BoldFallback(paragraph)
                      ELSE scan.vocab_word
        definition == VocabDefinition(vocab_word, scan.definition_parts,
                                      paragraph_text(paragraph))
    IN  IF strip(paragraph_text(paragraph)) = "" THEN <<>>
        ELSE IF vocab_word = "" THEN <<>>
        ELSE IF definition # "" /\ Len(definition) > 3
        THEN << <<vocab_word, definition>> >>
        ELSE <<>>

\* the body of the loop over paragraphs: the items of one paragraph (none or one)
ParagraphVocabulary(paragraph, presentation) ==
    LET scan == ScanRuns(paragraph, presentation, 1, "", <<>>)
        vocab_word == IF scan.vocab_word # "" THEN scan.vocab_word
                      ELSE BoldFallback(paragraph)
        definition == VocabDefinition(vocab_word, scan.definition_parts,
                                      paragraph_text(paragraph))
    IN  IF strip(paragraph_text(paragraph)) = "" THEN <<>>
        ELSE IF vocab_word = "" THEN <<>>
        ELSE IF definition # "" /\ Len(definition) > 3
        THEN << <<vocab_word, definition>> >>
        ELSE <<>>

RECURSIVE ParagraphsVocabulary(_, _, _)
ParagraphsVocabulary(paragraphs, presentation, k) ==
    IF k > Len(paragraphs) THEN <<>>
    ELSE ParagraphVocabulary(paragraphs[k], presentation)
             \o ParagraphsVocabulary(paragraphs, presentation, k + 1)

RECURSIVE ShapesVocabulary(_, _, _)
ShapesVocabulary(shapes, presentation, k) ==
    IF k > Len(shapes) THEN <<>>
    ELSE (IF shapes[k].has_text_frame
          THEN ParagraphsVocabulary(shapes[k].paragraphs, presentation, 1)
          ELSE <<>>) \o ShapesVocabulary(shapes, presentation, k + 1)

extract_vocabulary_from_slide(slide, presentation) ==
    ShapesVocabulary(slide.shapes, presentation, 1)

(***************************************************************************)
(* extract_careers and extract_session_materials.  Both walk the shapes;   *)
(* in a shape whose text matches a trigger they scan the stripped lines,   *)
(* then the stripped paragraph texts, with the same loop: a line matching  *)
(* a trigger sets the flag and is skipped, a later non-empty line that     *)
(* passes the category's test is cleaned and appended unless empty or      *)
(* already in the slide's list.                                            *)
(***************************************************************************)
careers_trigger_patterns ==
    << <<WordBoundary, Lit("related careers"), WordBoundary>>,
       <<WordBoundary, Lit("careers"), WordBoundary>> >>

materials_trigger_patterns ==
    << <<Lit("gather"), Ws, Lit("the"), Ws, Lit("following"), Ws, Lit("item"), Opt("s")>>,
       <<Lit("locate"), Ws, Lit("the"), Ws, Lit("following")>>,
       <<WordBoundary, Lit("locate"), Ws, Lit("the"), WordBoundary>> >>

\* the test of lines 624-627 and 640-642
CareerLineAccepted(line) ==
    \/ StartsWithBullet(line)
    \/ StartsWithNumber(line)
    \/ (Len(line) <= 80 /\ IsUpper(Char(line, 0)) /\ ~endswith(line, ":"))

\* the test of lines 677-680 and 693-695
MaterialLineAccepted(line) ==
    \/ StartsWithBullet(line)
    \/ StartsWithNumber(line)
    \/ (Len(line) <= 120 /\ ~endswith(line, ":"))

\* the loop over lines (or paragraphs) from entry k on
RECURSIVE ScanAfterTrigger(_, _, _, _, _)
ScanAfterTrigger(category, lines, k, found_trigger, items) ==
    IF k > Len(lines) THEN items
    ELSE LET line == strip(lines[k])
             patterns == IF category = "careers" THEN careers_trigger_patterns
                         ELSE materials_trigger_patterns
             accepted == IF category = "careers" THEN CareerLineAccepted(line)
                         ELSE MaterialLineAccepted(line)
             clean_item == _clean_list_item(line)
         IN  IF AnySearch(patterns, line)
             THEN ScanAfterTrigger(category, lines, k + 1, TRUE, items)
             ELSE IF found_trigger /\ line # "" /\ accepted
                     /\ clean_item # "" /\ ~InList(clean_item, items)
             THEN ScanAfterTrigger(category, lines, k + 1, found_trigger,
                                   Append(items, clean_item))
             ELSE ScanAfterTrigger(category, lines, k + 1, found_trigger, items)

\* the body of the loop over shapes, for one shape
ScanShape(category, shape, items) ==
    LET full_text == text_frame_text(shape)
        patterns == IF category = "careers" THEN careers_trigger_patterns
                    ELSE materials_trigger_patterns
        paras == [k \in 1..Len(shape.paragraphs) |-> paragraph_text(shape.paragraphs[k])]
    IN  IF ~shape.has_text_frame \/ full_text = "" THEN items
        ELSE IF ~AnySearch(patterns, full_text) THEN items
        ELSE ScanAfterTrigger(category, paras, 1, FALSE,
                 ScanAfterTrigger(category, split_lines(full_text), 1, FALSE, items))

RECURSIVE ScanShapes(_, _, _, _)
ScanShapes(category, shapes, k, items) ==
    IF k > Len(shapes) THEN items
    ELSE ScanShapes(category, shapes, k + 1, ScanShape(category, shapes[k], items))

extract_careers(slide) == ScanShapes("careers", slide.shapes, 1, <<>>)

extract_session_materials(slide) == ScanShapes("materials", slide.shapes, 1, <<>>)

(***************************************************************************)
(* extract_session_goals and extract_assessments.  Pass 1 decides whether  *)
(* any shape of the slide matches a trigger; pass 2 walks the shapes: in a *)
(* shape that matches, the text after the end of the match of the first    *)
(* pattern (in list order) that matches is split into lines; in a shape    *)
(* that does not, the lines (and for goals also the paragraphs) are taken  *)
(* as standalone items.  U+00A9 (copyright sign) is written "|".           *)
(***************************************************************************)
goals_trigger_patterns ==
    << <<Lit("In today's session"), Opt(","), OptWs, Lit("you will"), Opt(":")>>,
       <<Lit("In this session"), Opt(","), OptWs, Lit("you will"), Opt(":")>>,
       <<Lit("Today"), Opt(","), OptWs, Lit("you will"), Opt(":")>>,
       <<Bol, Lit("GOALS"), Eol>>,
       <<Bol, Lit("Goals"), Eol>>,
       <<Lit("Session Goals")>>,
       <<Lit("Learning Goals")>>,
       <<Bol, Lit("Objectives"), Eol>> >>

assessments_trigger_patterns ==
    << <<Lit("your instructor will be evaluating you")>>,
       <<Lit("listed onscreen are the specific items")>>,
       <<Lit("assessment")>>,
       <<Lit("you will be evaluated on")>>,
       <<Lit("evaluation criteria")>>,
       <<Lit("instructor will evaluate")>>,
       <<Lit("assessment criteria")>>,
       <<Lit("performance indicators")>>,
       <<Lit("you should be able to")>> >>

goals_trigger_fragments ==
    <<"in today's session", "in this session", "today, you will", "you will:",
      "goals:", "objectives:", "session goals", "learning goals">>
goals_trigger_words == <<"goals", "objectives", "session goals", "learning goals">>
goals_instructions ==
    <<"now that you have completed", "module activity sheet", "student portfolio",
      "turn on your call light", "review the following skills",
      "waiting for your instructor">>
assessments_instructions ==
    <<"now that you have completed", "module activity sheet", "student portfolio",
      "turn on your call light", "review the following skills",
      "waiting for your instructor", "find the module activity sheet">>
skip_terms == <<"insert", "slide layout", "media description", "copyright", "|">>
goal_words ==
    <<"will", "explore", "examine", "learn", "understand", "identify",
      "analyze", "demonstrate", "observe", "discover", "explain",
      "describe", "investigate", "construct", "compare", "use",
      "apply", "evaluate", "create", "synthesize", "capture",
      "develop", "practice", "determine", "calculate", "solve",
      "recognize", "review", "begin", "complete">>
assessment_words ==
    <<"describe", "explain", "identify", "analyze", "compare", "demonstrate",
      "use", "construct", "examine", "define", "name", "list", "calculate",
      "determine", "give", "provide", "show", "illustrate", "evaluate">>

\* the slide gate: some shape with non-empty text matches a trigger
\* a variant of pass 1 that takes every slide for a slide of the category
SlideHasTrigger_Always(patterns, slide) == TRUE

SlideHasTrigger(patterns, slide) ==
    \E k \in 1..Len(slide.shapes) :
        /\ slide.shapes[k].has_text_frame
        /\ text_frame_text(slide.shapes[k]) # ""
        /\ AnySearch(patterns, text_frame_text(slide.shapes[k]))

\* a variant that cuts at the end of the match that ends first in the text
TriggerEndPos_EarliestInText(patterns, full_text) ==
    LET ends == {re_search(patterns[k], full_text) : k \in 1..Len(patterns)} \ {NoMatch}
    IN  IF ends = {} THEN NoMatch ELSE Min(ends)

\* the loop of lines 364-369 and 517-522: match.end() of the first pattern,
\* in list order, that matches
TriggerEndPos(patterns, full_text) ==
    LET hits == {k \in 1..Len(patterns) : re_search(patterns[k], full_text) # NoMatch}
    IN  IF hits = {} THEN NoMatch ELSE re_search(patterns[Min(hits)], full_text)

\* a variant of the cleaning that leaves the bullets in place
CleanItem_KeepsBullets(line) == strip(StripListNumbering(line))

\* the two cleaning statements of lines 398-399, 433-434, 467-468, 547-548, 583-584
CleanItem(line) == strip(lstrip(StripListNumbering(line), BulletGlyphs))

\* lines 384-394: a line of a trigger shape that is not a goal
GoalLineSkipped(line_lower) ==
    \/ AnyIn(goals_trigger_fragments, line_lower)
    \/ InList(strip(line_lower), goals_trigger_words)
    \/ AnyIn(goals_instructions, line_lower)

\* lines 537-543
AssessmentLineSkipped(line_lower) ==
    \/ contains(line_lower, "review the list")
    \/ contains(line_lower, "before continuing")
    \/ AnyIn(assessments_instructions, line_lower)

\* the loop of lines 379-401 (goals) and 532-550 (assessments)
RECURSIVE LinesAfterTrigger(_, _, _, _)
LinesAfterTrigger(category, lines, k, items) ==
    IF k > Len(lines) THEN items
    ELSE LET line == strip(lines[k])
             skipped == IF category = "goals" THEN GoalLineSkipped(lower(line))
                        ELSE AssessmentLineSkipped(lower(line))
             clean == CleanItem(line)
         IN  IF line # "" /\ Len(line) > 3 /\ ~skipped
                /\ clean # "" /\ ~InList(clean, items)
             THEN LinesAfterTrigger(category, lines, k + 1, Append(items, clean))
             ELSE LinesAfterTrigger(category, lines, k + 1, items)

\* lines 412-419, and 446-454 for a paragraph (which a trigger match also skips)
StandaloneGoalSkipped(line, is_paragraph) ==
    \/ (is_paragraph /\ AnySearch(goals_trigger_patterns, line))
    \/ AnyIn(skip_terms, lower(line))
    \/ AnyIn(goals_trigger_fragments, lower(line))
    \/ InList(strip(lower(line)), goals_trigger_words)

\* lines 423-432 and 458-466
StandaloneGoalAccepted(line) ==
    StartsWithBullet(line) \/ AnyIn(goal_words, lower(line))

\* lines 561-571
StandaloneAssessmentSkipped(line) ==
    \/ AnySearch(assessments_trigger_patterns, line)
    \/ contains(lower(line), "review the list")
    \/ contains(lower(line), "before continuing")
    \/ AnyIn(skip_terms, lower(line))
    \/ AnyIn(assessments_instructions, lower(line))

\* lines 575-582
StandaloneAssessmentAccepted(line) ==
    \/ StartsWithNumber(line)
    \/ StartsWithBullet(line)
    \/ AnyIn(assessment_words, lower(line))

\* the loops of lines 407-438 and 441-472 (goals) and 556-588 (assessments)
RECURSIVE StandaloneLines(_, _, _, _, _)
StandaloneLines(category, lines, k, is_paragraph, items) ==
    IF k > Len(lines) THEN items
    ELSE LET line == strip(lines[k])
             skipped == IF category = "goals"
                        THEN StandaloneGoalSkipped(line, is_paragraph)
                        ELSE StandaloneAssessmentSkipped(line)
             accepted == IF category = "goals" THEN StandaloneGoalAccepted(line)
                         ELSE StandaloneAssessmentAccepted(line)
             clean == CleanItem(line)
         IN  IF line # "" /\ Len(line) > 10 /\ ~skipped /\ accepted
                /\ clean # "" /\ ~InList(clean, items)
             THEN StandaloneLines(category, lines, k + 1, is_paragraph,
                                  Append(items, clean))
             ELSE StandaloneLines(category, lines, k + 1, is_paragraph, items)

\* the body of the pass-2 loop for one shape
SectionShape(category, shape, items) ==
    LET full_text == text_frame_text(shape)
        patterns == IF category = "goals" THEN goals_trigger_patterns
                    ELSE assessments_trigger_patterns
        trigger_end_pos == TriggerEndPos(patterns, full_text)
        paras == [k \in 1..Len(shape.paragraphs) |-> paragraph_text(shape.paragraphs[k])]
    IN  IF ~shape.has_text_frame \/ full_text = "" THEN items
        ELSE IF trigger_end_pos # NoMatch
        THEN LinesAfterTrigger(category,
                 split_lines(strip(slice(full_text, trigger_end_pos, Len(full_text)))),
                 1, items)
        ELSE IF category = "goals"
        THEN StandaloneLines(category, paras, 1, TRUE,
                 StandaloneLines(category, split_lines(full_text), 1, FALSE, items))
        ELSE StandaloneLines(category, split_lines(full_text), 1, FALSE, items)

\* a variant in which each shape's items are deduplicated among themselves
\* only, then added to the slide's
RECURSIVE SectionShapes_PerShapeDedupe(_, _, _, _)
SectionShapes_PerShapeDedupe(category, shapes, k, items) ==
    IF k > Len(shapes) THEN items
    ELSE SectionShapes_PerShapeDedupe(category, shapes, k + 1,
             items \o SectionShape(category, shapes[k], <<>>))

RECURSIVE SectionShapes(_, _, _, _)
SectionShapes(category, shapes, k, items) ==
    IF k > Len(shapes) THEN items
    ELSE SectionShapes(category, shapes, k + 1, SectionShape(category, shapes[k], items))

extract_session_goals(slide) ==
    IF ~SlideHasTrigger(goals_trigger_patterns, slide) THEN <<>>
    ELSE SectionShapes("goals", slide.shapes, 1, <<>>)

extract_assessments(slide) ==
    IF ~SlideHasTrigger(assessments_trigger_patterns, slide) THEN <<>>
    ELSE SectionShapes("assessments", slide.shapes, 1, <<>>)

(***************************************************************************)
(* extract_all_content_from_ppt, and the loop over the decks of            *)
(* process_all_ppt_files (lines 793-796) and process_files                 *)
(* (streamlit_app.py, lines 148-162).  A deck's filename is its position   *)
(* in the caller's list of files.                                          *)
(***************************************************************************)
EmptyRecord ==
    [vocabulary |-> <<>>, goals |-> <<>>, assessments |-> <<>>,
     careers |-> <<>>, materials |-> <<>>]

\* any(content.values())
AnyContent(record) ==
    \/ record.vocabulary # <<>>
    \/ record.goals # <<>>
    \/ record.assessments # <<>>
    \/ record.careers # <<>>
    \/ record.materials # <<>>

\* a variant that merges the careers of a slide into the running list
MergeCareers_Union(running, careers_items) == running \o careers_items

\* lines 741-743: careers = careers_items when the slide has any
MergeCareers(running, careers_items) ==
    IF careers_items # <<>> THEN careers_items ELSE running

\* a variant without the membership test
AppendNew_NoDedupe(running, items) == running \o items

\* lines 726-728 and 735-737: append the items not yet in the running list
RECURSIVE AppendNew(_, _)
AppendNew(running, items) ==
    IF items = <<>> THEN running
    ELSE AppendNew(IF InList(Head(items), running) THEN running
                   ELSE Append(running, Head(items)),
                   Tail(items))

\* a variant that keeps one copy of an item
Extend_Dedupe(running, items) == AppendNew(running, items)

\* a variant that keeps the items of the latest slide that has any, as the
\* careers list does
Extend_LastWins(running, items) == IF items # <<>> THEN items ELSE running

\* list.extend (lines 719 and 749)
Extend(running, items) == running \o items

(***************************************************************************)
(* The sample decks.  Every deck carries SampleTheme; its slides are drawn *)
(* from SampleSlides.                                                      *)
(***************************************************************************)
NoColor == [type |-> "none"]
ExplicitColor(rgb) == [type |-> "rgb", rgb |-> rgb]
ThemeColor(idx) == [type |-> "theme", theme_color |-> idx, brightness |-> 0]

TextRun(text) == [text |-> text, bold |-> FALSE, color |-> NoColor]
BoldRun(text, color) == [text |-> text, bold |-> TRUE, color |-> color]
Paragraph(runs) == [runs |-> runs, color |-> NoColor]
\* a shape with a text frame of one plain run per line
TextShape(lines) ==
    [has_text_frame |-> TRUE,
     paragraphs |-> [k \in 1..Len(lines) |-> Paragraph(<<TextRun(lines[k])>>)]]
RunsShape(runs) == [has_text_frame |-> TRUE, paragraphs |-> <<Paragraph(runs)>>]
Picture == [has_text_frame |-> FALSE, paragraphs |-> <<>>]

\* dark1, light1, dark2, light2, accent1..6, hyperlink, followed hyperlink
SampleTheme ==
    [present |-> TRUE,
     slots |-> <<RGBColor(0, 0, 0), RGBColor(255, 255, 255), RGBColor(30, 30, 90),
                 RGBColor(230, 230, 230), RGBColor(0, 112, 192), RGBColor(200, 0, 0),
                 None, RGBColor(0, 176, 80), RGBColor(0, 0, 0), RGBColor(0, 0, 0),
                 RGBColor(0, 0, 255), RGBColor(128, 0, 128)>>]

SamplePresentation == [theme |-> SampleTheme]

\* goals, a vocabulary term in explicit blue, materials and careers
SlideIntro ==
    [shapes |-> <<
        TextShape(<<"In today's session, you will:", "@ Identify rock types",
                    "@ Explain erosion">>),
        RunsShape(<<BoldRun("Osmosis", ExplicitColor(RGBColor(0, 112, 192))),
                    TextRun(": the movement of water.")>>),
        TextShape(<<"Gather the following items:", "@ 2 safety goggles", "2. Beaker">>),
        TextShape(<<"Related Careers", "Geologist", "Surveyor">>) >>,
     fault |-> "none"]

\* goals and materials that repeat SlideIntro's, assessments, the same term in
\* a theme colour with another definition, another careers list
SlideReview ==
    [shapes |-> <<
        Picture,
        TextShape(<<"Session Goals", "1. Explain erosion", "2. Classify minerals">>),
        TextShape(<<"Your instructor will be evaluating you on:",
                    "1. Describe the rock cycle">>),
        RunsShape(<<BoldRun("Osmosis", ThemeColor(5)),
                    TextRun(" - diffusion across a membrane")>>),
        TextShape(<<"Gather the following items:", "@ Beaker", "@ Beaker", "12 oz jar">>),
        TextShape(<<"Locate the following", "Beaker">>),
        TextShape(<<"Careers", "@ Hydrologist", "@ Geologist">>) >>,
     fault |-> "none"]

\* a slide without content of any category
SlideTitle ==
    [shapes |-> <<Picture, TextShape(<<"Welcome to the module">>)>>, fault |-> "none"]

\* a slide on which an extractor call raises
SlideBroken ==
    [shapes |-> <<TextShape(<<"Related Careers", "Geologist">>)>>, fault |-> "raises"]

\* A deck refers to its slides: the state holds the references, Slide the
\* object graph behind each.
SampleSlides == {"SlideIntro", "SlideReview", "SlideTitle", "SlideBroken"}
Slide ==
    [ref \in SampleSlides |->
        CASE ref = "SlideIntro" -> SlideIntro
          [] ref = "SlideReview" -> SlideReview
          [] ref = "SlideTitle" -> SlideTitle
          [] ref = "SlideBroken" -> SlideBroken]

\* the decks a caller processes, and the slides of a deck, at most
MaxDecks == 2
MaxSlides == 2

\* lines 716, 722, 731, 740 and 746: what the five extractors return on each
\* sample slide
\* (@@ <<>> makes the table explicit, so each entry is computed once)
Extracted ==
    [ref \in SampleSlides |->
        [vocabulary |-> extract_vocabulary_from_slide(Slide[ref], SamplePresentation),
         goals |-> extract_session_goals(Slide[ref]),
         assessments |-> extract_assessments(Slide[ref]),
         careers |-> extract_careers(Slide[ref]),
         materials |-> extract_session_materials(Slide[ref])]] @@ <<>>

CurrentDeck == decks[Len(decks)]

\* a variant whose materials list outlives the call
OpenDeck_KeepsMaterials ==
    /\ pc = "files"
    /\ Len(decks) < MaxDecks
    /\ decks' = Append(decks, [opens |-> TRUE, theme |-> SampleTheme, slides |-> <<>>])
    /\ all_vocabulary' = <<>>
    /\ session_goals' = <<>>
    /\ assessments' = <<>>
    /\ careers' = <<>>
    /\ pc' = "slides"
    /\ UNCHANGED <<materials, content, returned, all_content, pure_vars>>

\* line 705: Presentation(ppt_path) succeeds and the five lists start empty
OpenDeck ==
    /\ pc = "files"
    /\ Len(decks) < MaxDecks
    /\ decks' = Append(decks, [opens |-> TRUE, theme |-> SampleTheme, slides |-> <<>>])
    /\ all_vocabulary' = <<>>
    /\ session_goals' = <<>>
    /\ assessments' = <<>>
    /\ careers' = <<>>
    /\ materials' = <<>>
    /\ pc' = "slides"
    /\ UNCHANGED <<content, returned, all_content, pure_vars>>

\* line 705 raises: the except clause returns the empty record (lines 759-761)
OpenDeckFails ==
    /\ pc = "files"
    /\ Len(decks) < MaxDecks
    /\ decks' = Append(decks, [opens |-> FALSE, theme |-> SampleTheme, slides |-> <<>>])
    /\ content' = EmptyRecord
    /\ pc' = "returned"
    /\ UNCHANGED <<all_vocabulary, session_goals, assessments, careers,
                   materials, returned, all_content, pure_vars>>

\* one pass of the loop over the slides (lines 714-749)
ProcessSlide ==
    /\ pc = "slides"
    /\ Len(CurrentDeck.slides) < MaxSlides
    /\ \E slide \in SampleSlides :
        /\ Slide[slide].fault = "none"
        /\ decks' = [decks EXCEPT ![Len(decks)].slides = Append(@, slide)]
        /\ all_vocabulary' = Extend(all_vocabulary, Extracted[slide].vocabulary)
        /\ session_goals' = AppendNew(session_goals, Extracted[slide].goals)
        /\ assessments' = AppendNew(assessments, Extracted[slide].assessments)
        /\ careers' = MergeCareers(careers, Extracted[slide].careers)
        /\ materials' = Extend(materials, Extracted[slide].materials)
    /\ UNCHANGED <<pc, content, returned, all_content, pure_vars>>

\* a variant that returns what was gathered before the exception
SlideRaises_KeepsPartial ==
    /\ pc = "slides"
    /\ Len(CurrentDeck.slides) < MaxSlides
    /\ \E slide \in SampleSlides :
        /\ Slide[slide].fault # "none"
        /\ decks' = [decks EXCEPT ![Len(decks)].slides = Append(@, slide)]
    /\ content' = [vocabulary |-> all_vocabulary, goals |-> session_goals,
                   assessments |-> assessments, careers |-> careers,
                   materials |-> materials]
    /\ pc' = "returned"
    /\ UNCHANGED <<all_vocabulary, session_goals, assessments, careers,
                   materials, returned, all_content, pure_vars>>

\* an extractor call raises on the slide: the except clause returns the
\* empty record (lines 759-761)
SlideRaises ==
    /\ pc = "slides"
    /\ Len(CurrentDeck.slides) < MaxSlides
    /\ \E slide \in SampleSlides :
        /\ Slide[slide].fault # "none"
        /\ decks' = [decks EXCEPT ![Len(decks)].slides = Append(@, slide)]
    /\ content' = EmptyRecord
    /\ pc' = "returned"
    /\ UNCHANGED <<all_vocabulary, session_goals, assessments, careers,
                   materials, returned, all_content, pure_vars>>

\* the loop over the slides ends: lines 751-757
ReturnRecord ==
    /\ pc = "slides"
    /\ content' = [vocabulary |-> all_vocabulary, goals |-> session_goals,
                   assessments |-> assessments, careers |-> careers,
                   materials |-> materials]
    /\ pc' = "returned"
    /\ UNCHANGED <<decks, all_vocabulary, session_goals, assessments,
                   careers, materials, returned, all_content, pure_vars>>

\* a variant of the caller's step that stores every record
StoreContent_Always ==
    /\ pc = "returned"
    /\ returned' = Append(returned, content)
    /\ all_content' = [f \in DOMAIN all_content \cup {Len(decks)} |->
                          IF f = Len(decks) THEN content ELSE all_content[f]]
    /\ pc' = "files"
    /\ UNCHANGED <<decks, all_vocabulary, session_goals, assessments,
                   careers, materials, content, pure_vars>>

\* the caller's step after the call: doc_updates.py lines 795-796,
\* streamlit_app.py lines 161-162
StoreContent ==
    /\ pc = "returned"
    /\ returned' = Append(returned, content)
    /\ all_content' =
          IF AnyContent(content)
          THEN [f \in DOMAIN all_content \cup {Len(decks)} |->
                   IF f = Len(decks) THEN content ELSE all_content[f]]
          ELSE all_content
    /\ pc' = "files"
    /\ UNCHANGED <<decks, all_vocabulary, session_goals, assessments,
                   careers, materials, content, pure_vars>>

\* the loop over the files ends: the mapping goes to the report writer
FinishFiles ==
    /\ pc = "files"
    /\ pc' = "done"
    /\ UNCHANGED <<decks, all_vocabulary, session_goals, assessments,
                   careers, materials, content, returned, all_content, pure_vars>>

\* no pure function is under call
NoCall == call = "" /\ arg = None /\ ret = Pending

\* a new DocumentationExtractor and an empty mapping (doc_updates.py lines
\* 775-781, streamlit_app.py lines 117 and 137-143)
Init ==
    /\ NoCall
    /\ pc = "files"
    /\ decks = <<>>
    /\ all_vocabulary = <<>>
    /\ session_goals = <<>>
    /\ assessments = <<>>
    /\ careers = <<>>
    /\ materials = <<>>
    /\ content = EmptyRecord
    /\ returned = <<>>
    /\ all_content = <<>>

Next ==
    \/ OpenDeck
    \/ OpenDeckFails
    \/ ProcessSlide
    \/ SlideRaises
    \/ ReturnRecord
    \/ StoreContent
    \/ FinishFiles

Spec == Init /\ [][Next]_vars

\* no deck is being processed
NoDecks ==
    /\ pc = "off"
    /\ decks = <<>>
    /\ all_vocabulary = <<>>
    /\ session_goals = <<>>
    /\ assessments = <<>>
    /\ careers = <<>>
    /\ materials = <<>>
    /\ content = EmptyRecord
    /\ returned = <<>>
    /\ all_content = <<>>

(***************************************************************************)
(* Inputs of the colour classifier: channel values at and next to every    *)
(* threshold of the rules and every edge of the boxes.                     *)
(***************************************************************************)
ChannelSamples ==
    {0, 9, 10, 11, 30, 50, 51, 64, 70, 71, 79, 80, 100, 101, 120, 121,
     130, 131, 144, 150, 151, 180, 181, 190, 191, 199, 200, 201, 208,
     210, 211, 220, 221, 230, 231, 245, 255}

ColorInputs ==
    {None} \cup {RGBColor(r, g, b) : r, g, b \in ChannelSamples}

\* is_blue_color returns its decision on the colour it was handed.
ReturnIsBlueColor ==
    /\ call = "is_blue_color"
    /\ ret = Pending
    /\ ret' = Returned(is_blue_color(arg))
    /\ UNCHANGED <<call, arg, deck_vars>>

\* Every sampled colour is handed to is_blue_color.
InitColor ==
    /\ call = "is_blue_color"
    /\ arg \in ColorInputs
    /\ ret = Pending
    /\ NoDecks

NextColor == ReturnIsBlueColor

SpecColor == InitColor /\ [][NextColor]_vars

(***************************************************************************)
(* Inputs of the colour resolver: a run and its paragraph, each with no    *)
(* colour, an explicit colour or a theme index (a slot with a colour, the  *)
(* slot without one, the last slot, an index past the slots; a slot with   *)
(* a brightness of 0.4 or -0.25, held in hundredths), in a deck with the   *)
(* sample theme, without a theme part, or with a theme whose dark1 slot    *)
(* has no rgb.                                                             *)
(***************************************************************************)
MissingTheme == [present |-> FALSE, slots |-> <<>>]
ThemeWithoutDark1 == [SampleTheme EXCEPT !.slots[1] = None]
ThemeInputs == {SampleTheme, MissingTheme, ThemeWithoutDark1}

ColorDescriptors ==
    {NoColor, ExplicitColor(RGBColor(0, 112, 192)), ExplicitColor(RGBColor(200, 0, 0))}
        \cup {ThemeColor(idx) : idx \in {1, 5, 7, 12, 13}}
        \cup {[ThemeColor(5) EXCEPT !.brightness = b] : b \in {40, -25}}

ResolverInputs ==
    [run : {[text |-> "Osmosis", bold |-> TRUE, color |-> c] : c \in ColorDescriptors},
     paragraph : {[runs |-> <<>>, color |-> c] : c \in ColorDescriptors},
     presentation : {[theme |-> t] : t \in ThemeInputs}]

\* get_effective_color returns the colour it resolved, or None
ReturnGetEffectiveColor ==
    /\ call = "get_effective_color"
    /\ ret = Pending
    /\ ret' = Returned(get_effective_color(arg.run, arg.paragraph, arg.presentation))
    /\ UNCHANGED <<call, arg, deck_vars>>

InitResolver ==
    /\ call = "get_effective_color"
    /\ arg \in ResolverInputs
    /\ ret = Pending
    /\ NoDecks

NextResolver == ReturnGetEffectiveColor

SpecResolver == InitResolver /\ [][NextResolver]_vars

(***************************************************************************)
(* extract_module_acronym (lines 763-770).  os.path.splitext cuts the path *)
(* at the last dot of its last component, unless only dots precede it in   *)
(* that component.                                                         *)
(***************************************************************************)
splitext(p) ==
    LET seps == {i \in 0..(Len(p) - 1) : Char(p, i) = "/"}
        dots == {i \in 0..(Len(p) - 1) : Char(p, i) = "."}
        sepIndex == IF seps = {} THEN -1 ELSE Max(seps)
        dotIndex == IF dots = {} THEN -1 ELSE Max(dots)
    IN  IF dotIndex > sepIndex
           /\ \E i \in (sepIndex + 1)..(dotIndex - 1) : Char(p, i) # "."
        THEN <<slice(p, 0, dotIndex), slice(p, dotIndex, Len(p))>>
        ELSE <<p, "">>

extract_module_acronym(filename) ==
    LET base_name == splitext(filename)[1]
        parts == split(base_name, "_")
    IN  IF parts # <<>> THEN parts[1] ELSE "UNKN"

(***************************************************************************)
(* Inputs of the text extractors.  A vocabulary input is a slide with one  *)
(* shape of one paragraph: a candidate run alone, a candidate and a        *)
(* trailing run in either order, or two candidates and a trailing run.     *)
(* The candidates are bold runs: two in an emphasis colour (one explicit,  *)
(* one through the theme), an excluded phrase, a blank run, and runs in    *)
(* the default colour of two words, of one word and with punctuation.      *)
(* A trailing run is a separator and a definition, or a text too short for *)
(* one, or a definition after an en dash ("{") or an em dash ("}").        *)
(***************************************************************************)
CandidateRuns ==
    {BoldRun("Osmosis", ExplicitColor(RGBColor(0, 112, 192))),
     BoldRun(" Erosion ", ThemeColor(5)),
     BoldRun("Direct Instruction", ExplicitColor(RGBColor(0, 112, 192))),
     BoldRun("  ", ExplicitColor(RGBColor(0, 112, 192))),
     BoldRun("Rock Cycle", NoColor),
     BoldRun("Mineral", NoColor),
     BoldRun("Rock Cycle (old)", NoColor)}

Separators == {"", " ", ":", ": ", " : ", "-", " - "}
Definitions == {"the movement of water.", "osmosis in a rock cycle", "Rock"}

TrailingRuns ==
    {TextRun(sep \o D) : sep \in Separators, D \in Definitions}
        \cup {TextRun(" is"), TextRun(": a b"), TextRun("")}
        \cup {TextRun(" { the movement of water."), TextRun("}osmosis in a rock cycle")}

ParagraphInputs ==
    {<<t>> : t \in CandidateRuns}
        \cup {<<t, d>> : t \in CandidateRuns, d \in TrailingRuns}
        \cup {<<d, t>> : t \in CandidateRuns, d \in TrailingRuns}
        \cup {<<t, u, TextRun(sep \o "the movement of water.")>> :
                  t \in CandidateRuns, u \in CandidateRuns, sep \in {"", ": "}}

VocabularyInputs ==
    {[slide |-> [shapes |-> <<Picture, RunsShape(runs)>>, fault |-> "none"],
      presentation |-> SamplePresentation] : runs \in ParagraphInputs}

(***************************************************************************)
(* A section input is a slide handed to the four section extractors:       *)
(* a goals trigger sentence followed by distinct bulleted lines; the       *)
(* trigger of a category followed by lines that start with digits          *)
(* (quantities, list markers with '.' or ')', a marker without white       *)
(* space), or by lines of three or four characters; shapes whose first     *)
(* line falls short of a trigger; the trigger                              *)
(* of a category, alone or with one item, in one shape and one or two      *)
(* lines in a second shape; a trigger with an item on its own line, with   *)
(* or without a line before and a line after; two triggers of a category   *)
(* in one shape, in list order and against it, each followed by an item;   *)
(* and the sample slides of the decks.                                     *)
(***************************************************************************)
\* the lists of 1 to n different members of S
LineLists(S, n) ==
    UNION {{lines \in [1..m -> S] : \A i, j \in 1..m : lines[i] = lines[j] => i = j} :
              m \in 1..n}

GoalsTriggerSentences == {"In today's session, you will:", "Today you will"}
BulletedLines ==
    {"@ Identify rock types", "- Explain erosion", "*Use a beaker", "^ ab",
     "~ 2) Sort rocks"}
NumberedLines ==
    {"2 safety goggles", "2. Wear goggles", "3) Rinse beaker", "12 oz jar", "10.Label it"}
Categories == {"goals", "assessments", "careers", "materials"}
CategoryTrigger ==
    [goals |-> "Session Goals",
     assessments |-> "Your instructor will be evaluating you on:",
     careers |-> "Related Careers",
     materials |-> "Gather the following items:"]
NearTriggerShapes ==
    {TextShape(<<"Goals", "@ Identify rock types">>),
     TextShape(<<"Career day", "Geologist">>),
     TextShape(<<"Locate your seat", "2 safety goggles">>)}
\* lines of a shape that follows the shape with the trigger: with a bullet
\* and an action verb, with a list marker and none, a quantity, a short
\* bulleted line, a bare name, and a sentence with an action verb
ContinuationLines ==
    {"@ Identify rock types", "1. Rock cycle basics", "2 safety goggles", "- Pilot",
     "Geologist", "Students will compare rocks"}

SectionInputs ==
    {[slide |-> [shapes |-> <<TextShape(<<t>> \o lines)>>, fault |-> "none"]] :
        t \in GoalsTriggerSentences, lines \in LineLists(BulletedLines, 3)}
    \cup {[slide |-> [shapes |-> <<TextShape(<<CategoryTrigger[c]>> \o lines)>>,
                      fault |-> "none"]] :
        c \in Categories, lines \in LineLists(NumberedLines, 2)}
    \cup {[slide |-> [shapes |-> <<TextShape(<<CategoryTrigger[c]>> \o lines)>>,
                      fault |-> "none"]] :
        c \in Categories, lines \in LineLists({"Vet", "abc", "@ ab", "Welder"}, 2)}
    \cup {[slide |-> [shapes |-> <<Picture, shape>>, fault |-> "none"]] :
        shape \in NearTriggerShapes}
    \cup {[slide |-> [shapes |-> <<TextShape(<<CategoryTrigger[c]>> \o first),
                                   TextShape(more)>>,
                      fault |-> "none"]] :
        c \in Categories, first \in {<<>>, <<"@ Identify rock types">>},
        more \in LineLists(ContinuationLines, 2)}
    \cup {[slide |-> [shapes |-> <<TextShape(before \o <<head>> \o after)>>,
                      fault |-> "none"]] :
        before \in {<<>>, <<"Warm up first">>},
        head \in {"Today you will: learn X", "You will be evaluated on: lab safety",
                  "Related Careers: Geologist", "Gather the following items: 2 beakers"},
        after \in {<<>>, <<"@ Explain erosion">>}}
    \cup {[slide |-> [shapes |-> <<TextShape(lines)>>, fault |-> "none"]] :
        lines \in {<<"Session Goals", "@ Identify rock types",
                     "In this session, you will:", "- Explain erosion">>,
                   <<"In this session, you will:", "@ Identify rock types",
                     "Session Goals", "- Explain erosion">>,
                   <<"Assessment criteria", "1. Describe the rock cycle",
                     "Your instructor will be evaluating you on:", "2. Explain erosion">>,
                   <<"Your instructor will be evaluating you on:",
                     "1. Describe the rock cycle", "Assessment criteria",
                     "2. Explain erosion">>}}
    \cup {[slide |-> slide] : slide \in {SlideIntro, SlideReview, SlideTitle}}

\* the four section extractors return their lists for the slide (the calls
\* of lines 722, 731, 740 and 746)
ReturnSections ==
    /\ call = "extract_sections"
    /\ ret = Pending
    /\ ret' = Returned([goals |-> extract_session_goals(arg.slide),
                        assessments |-> extract_assessments(arg.slide),
                        careers |-> extract_careers(arg.slide),
                        materials |-> extract_session_materials(arg.slide)])
    /\ UNCHANGED <<call, arg, deck_vars>>

\* extract_vocabulary_from_slide returns the items of the slide
ReturnVocabulary ==
    /\ call = "extract_vocabulary_from_slide"
    /\ ret = Pending
    /\ ret' = Returned(extract_vocabulary_from_slide(arg.slide, arg.presentation))
    /\ UNCHANGED <<call, arg, deck_vars>>

\* extract_module_acronym returns the acronym of the filename
ReturnModuleAcronym ==
    /\ call = "extract_module_acronym"
    /\ ret = Pending
    /\ ret' = Returned(extract_module_acronym(arg))
    /\ UNCHANGED <<call, arg, deck_vars>>

\* should_exclude_vocab returns its verdict on the text
ReturnShouldExcludeVocab ==
    /\ call = "should_exclude_vocab"
    /\ ret = Pending
    /\ ret' = Returned(should_exclude_vocab(arg))
    /\ UNCHANGED <<call, arg, deck_vars>>

\* Every input is handed to its function: the vocabulary and section
\* inputs; filenames with and without a leading segment, further segments
\* and an extension; and texts that begin with a placeholder lead word, or
\* with another word, alone or followed by more text.
InitText ==
    /\ \/ call = "extract_vocabulary_from_slide" /\ arg \in VocabularyInputs
       \/ call = "extract_sections" /\ arg \in SectionInputs
       \/ /\ call = "extract_module_acronym"
          /\ arg \in {lead \o rest \o ext :
                        lead \in {"MATS", "CHEM", "a.b", ""},
                        rest \in {"", "_Session1", "_S1_v2", "__x"},
                        ext \in {".pptx", ".PPTX", ".v2.pptx", ""}}
       \/ /\ call = "should_exclude_vocab"
          /\ arg \in {before \o word \o after :
                        before \in {"", "* "},
                        word \in {"insert", "Post", "direct", "Procedure", "VOCAB",
                                  "gather", "Clean", "Osmosis", "Rock"},
                        after \in {"", " slide", "-test", ": cycle", "ed water", "s"}}
    /\ ret = Pending
    /\ NoDecks

NextText ==
    \/ ReturnVocabulary
    \/ ReturnSections
    \/ ReturnModuleAcronym
    \/ ReturnShouldExcludeVocab

SpecText == InitText /\ [][NextText]_vars

(***************************************************************************)
(* Claims about the per-deck aggregator and its callers, checked under     *)
(* Spec.  The reference values are computed from the slides of a deck as   *)
(* a whole, not pass by pass.                                              *)
(***************************************************************************)
\* what one extractor returned on each slide of a sequence, in order
PerSlide(slides, category) == [k \in 1..Len(slides) |-> Extracted[slides[k]][category]]

RECURSIVE Flatten(_)
Flatten(lists) == IF lists = <<>> THEN <<>> ELSE Head(lists) \o Flatten(Tail(lists))

\* the entries of list at the positions of keep, in order
Pick(list, keep) ==
    [n \in 1..Cardinality(keep) |->
        list[CHOOSE i \in keep : Cardinality({j \in keep : j <= i}) = n]]

\* list without the later occurrences of its entries
FirstSeen(list) ==
    Pick(list, {i \in 1..Len(list) : \A j \in 1..(i - 1) : list[j] # list[i]})

NoDuplicates(list) == \A i, j \in 1..Len(list) : list[i] = list[j] => i = j

\* the last non-empty list of lists, or the empty list
LastNonEmpty(lists) ==
    LET some == {k \in 1..Len(lists) : lists[k] # <<>>}
    IN  IF some = {} THEN <<>> ELSE lists[Max(some)]

\* the record of a deck that does not fail, from its slides alone
ExpectedRecord(slides) ==
    [vocabulary |-> Flatten(PerSlide(slides, "vocabulary")),
     goals |-> FirstSeen(Flatten(PerSlide(slides, "goals"))),
     assessments |-> FirstSeen(Flatten(PerSlide(slides, "assessments"))),
     careers |-> LastNonEmpty(PerSlide(slides, "careers")),
     materials |-> Flatten(PerSlide(slides, "materials"))]

\* the slide sequences a deck can hold, and the expected record of each
SlideSequences == UNION {[1..n -> SampleSlides] : n \in 0..MaxSlides}
Expected == [slides \in SlideSequences |-> ExpectedRecord(slides)] @@ <<>>

\* opening the deck, or an extractor call on one of its slides, raises
DeckFails(deck) ==
    ~deck.opens \/ \E k \in 1..Len(deck.slides) : Slide[deck.slides[k]].fault # "none"

\* the loop over the slides stands after a prefix of the deck's slides
AfterPrefix == pc = "slides"
Prefix == CurrentDeck.slides

\* C1: after any prefix of a deck's slides the running careers list is the
\* extract_careers result of the latest slide of the prefix whose result is
\* non-empty (not a union with earlier slides), and empty if there is none;
\* so a slide without careers leaves the list as it was.
C1_CareersLastWriteWins ==
    AfterPrefix => careers = LastNonEmpty(PerSlide(Prefix, "careers"))

\* C1's case: two slides with different non-empty careers were processed and
\* the list is the second slide's, which is not the two lists joined.
C1_Witness ==
    /\ AfterPrefix
    /\ Len(Prefix) = 2
    /\ Extracted[Prefix[1]].careers # <<>>
    /\ Extracted[Prefix[2]].careers # <<>>
    /\ Extracted[Prefix[1]].careers # Extracted[Prefix[2]].careers
    /\ careers = Extracted[Prefix[2]].careers

\* C2: after any prefix the goals list, and the assessments list, holds no
\* string twice and lists the strings the slides produced in first-seen
\* order; every returned record of a deck that did not fail does so too,
\* whatever the decks before it held (no dedupe across decks).
C2_GoalsFirstSeenOncePerDeck ==
    /\ AfterPrefix =>
        /\ NoDuplicates(session_goals)
        /\ NoDuplicates(assessments)
        /\ session_goals = FirstSeen(Flatten(PerSlide(Prefix, "goals")))
        /\ assessments = FirstSeen(Flatten(PerSlide(Prefix, "assessments")))
    /\ \A d \in 1..Len(returned) : ~DeckFails(decks[d]) =>
        /\ returned[d].goals = Expected[decks[d].slides].goals
        /\ returned[d].assessments = Expected[decks[d].slides].assessments

\* C2's case: the first deck's record holds a goal; in the second deck two
\* slides both produced that goal and the running list holds it once.
C2_Witness ==
    /\ AfterPrefix
    /\ Len(returned) = 1
    /\ Len(Prefix) = 2
    /\ \E g \in {returned[1].goals[i] : i \in 1..Len(returned[1].goals)} :
        /\ InList(g, Extracted[Prefix[1]].goals)
        /\ InList(g, Extracted[Prefix[2]].goals)
        /\ Cardinality({i \in 1..Len(session_goals) : session_goals[i] = g}) = 1

\* C3: the vocabulary list is the concatenation, in slide order, of the
\* per-slide results of extract_vocabulary_from_slide, after every prefix
\* and in every returned record of a deck that did not fail: nothing is
\* dropped or merged.
C3_VocabularyIsConcatenation ==
    /\ AfterPrefix => all_vocabulary = Flatten(PerSlide(Prefix, "vocabulary"))
    /\ \A d \in 1..Len(returned) : ~DeckFails(decks[d]) =>
        returned[d].vocabulary = Expected[decks[d].slides].vocabulary

\* C3's case: a returned record lists the same term twice, once with the
\* same definition and once with another.
C3_Witness ==
    \E d \in 1..Len(returned) : \E i, j \in 1..Len(returned[d].vocabulary) :
        /\ i < j
        /\ returned[d].vocabulary[i][1] = returned[d].vocabulary[j][1]
        /\ returned[d].vocabulary[i][2] # returned[d].vocabulary[j][2]

\* C4: the materials list is the concatenation, in slide order, of the
\* per-slide results of extract_session_materials, so an item of two slides
\* is listed twice, while no slide's own result lists an item twice.
C4_MaterialsConcatenatedPerSlideDeduped ==
    /\ AfterPrefix => materials = Flatten(PerSlide(Prefix, "materials"))
    /\ \A d \in 1..Len(returned) : ~DeckFails(decks[d]) =>
        returned[d].materials = Expected[decks[d].slides].materials
    /\ \A d \in 1..Len(decks) : \A k \in 1..Len(decks[d].slides) :
        NoDuplicates(Extracted[decks[d].slides[k]].materials)

\* C4's case: two different slides both produced an item, one of them from
\* two shapes, and the running list holds the item twice.
C4_Witness ==
    /\ AfterPrefix
    /\ Len(Prefix) = 2
    /\ Prefix[1] # Prefix[2]
    /\ \E i, j \in 1..Len(materials) : i < j /\ materials[i] = materials[j]
    /\ NoDuplicates(Extracted[Prefix[1]].materials)
    /\ NoDuplicates(Extracted[Prefix[2]].materials)

\* C5: a deck whose opening or whose extraction raises yields the record of
\* five empty lists, whatever its earlier slides held; the call returns, the
\* caller goes on, and every other deck's record is what its own slides give.
C5_FailedDeckYieldsEmptyRecord ==
    /\ pc \in {"files", "slides", "returned", "done"}
    /\ \A d \in 1..Len(returned) :
        returned[d] = IF DeckFails(decks[d]) THEN EmptyRecord
                      ELSE Expected[decks[d].slides]

\* C5's case: the first deck failed on its second slide after a slide with
\* content, its record is empty, and the deck after it has its full record.
C5_Witness ==
    /\ Len(returned) = 2
    /\ Len(decks[1].slides) = 2
    /\ AnyContent(Extracted[decks[1].slides[1]])
    /\ DeckFails(decks[1])
    /\ returned[1] = EmptyRecord
    /\ ~DeckFails(decks[2])
    /\ AnyContent(returned[2])

\* C6: the mapping handed to the report writer has an entry for a deck
\* exactly when one of the deck's five lists is non-empty, the entry being
\* the deck's record; it never holds a record of five empty lists.
C6_MappingHoldsExactlyNonEmptyRecords ==
    /\ DOMAIN all_content \subseteq 1..Len(returned)
    /\ \A d \in 1..Len(returned) :
        /\ d \in DOMAIN all_content <=> AnyContent(returned[d])
        /\ d \in DOMAIN all_content => all_content[d] = returned[d]
    /\ \A f \in DOMAIN all_content : all_content[f] # EmptyRecord

\* C6's case: the loop is over, one deck had content and is in the mapping,
\* another had none and is not.
C6_Witness ==
    /\ pc = "done"
    /\ \E d, e \in 1..Len(returned) :
        /\ d \in DOMAIN all_content
        /\ e \notin DOMAIN all_content
        /\ returned[e] = EmptyRecord

ClassifiedRGB == ret.kind = "Returned" /\ arg.kind = "RGBColor"

\* C8 as stated: every colour whose three channels all exceed 200 is
\* classified as not blue.
C8_NearWhiteIsNotBlue ==
    (ClassifiedRGB /\ arg.red > 200 /\ arg.green > 200 /\ arg.blue > 200)
        => ret.value = FALSE

\* The three channels lie mutually within 10 of each other.
MutuallyWithin10(c) ==
    /\ abs(c.red - c.green) <= 10
    /\ abs(c.green - c.blue) <= 10
    /\ abs(c.red - c.blue) <= 10

\* C9 as stated: every colour whose channels are mutually within 10 of each
\* other is classified as not blue, also inside a bounding box.
C9_GrayIsNotBlue ==
    (ClassifiedRGB /\ MutuallyWithin10(arg)) => ret.value = FALSE

\* The decision list of C10, rules (a) to (f): each rule is a condition and a
\* verdict, and the first rule whose condition holds decides.
ReferenceRules(c) ==
    << [when |-> InBlueRange(c.red, c.green, c.blue), verdict |-> TRUE],
       [when |-> c.red > 200 /\ c.green > 200 /\ c.blue > 200, verdict |-> FALSE],
       [when |-> MutuallyWithin10(c), verdict |-> FALSE],
       [when |-> c.blue > c.red + 50 /\ c.blue > c.green + 50 /\ c.blue > 120,
        verdict |-> TRUE],
       [when |-> c.green > 150 /\ c.blue > 150 /\ c.red < 80, verdict |-> TRUE],
       [when |-> c.blue > 180 /\ c.blue > c.red + 30 /\ c.blue > c.green + 30,
        verdict |-> TRUE] >>

ReferenceDecision(c) ==
    LET rules == ReferenceRules(c)
        hits == {i \in 1..Len(rules) : rules[i].when}
    IN  IF hits = {} THEN FALSE
        ELSE rules[CHOOSE i \in hits : \A j \in hits : i <= j].verdict

\* C10: on every RGB triple is_blue_color returns what the decision list
\* (a)..(f) returns, the first matching rule deciding, and on an unresolved
\* (None) colour it returns false.
C10_IsBlueIsDecisionList ==
    ret.kind = "Returned" =>
        IF arg.kind = "None" THEN ret.value = FALSE
        ELSE ret.value = ReferenceDecision(arg)

\* C10's case: a near-white colour inside a box was classified, rule (a)
\* deciding before rule (b); and a colour only rule (f) accepts was too.
C10_Witness ==
    /\ ClassifiedRGB
    /\ arg.red > 200 /\ arg.green > 200 /\ arg.blue > 200
    /\ InBlueRange(arg.red, arg.green, arg.blue)
    /\ ret.value = TRUE

(***************************************************************************)
(* Claims about the colour resolver, checked under SpecResolver.           *)
(***************************************************************************)
\* the colour a theme index stands for in a deck, None when the theme part
\* is missing, the index is outside 1..12 or the slot has no rgb
ThemeSlot(presentation, idx) ==
    IF presentation.theme.present /\ idx \in 1..12
    THEN presentation.theme.slots[idx] ELSE None

\* what each of the five layers resolves to, in the order of the claim
Layers(a) ==
    <<IF a.run.color.type = "rgb" THEN a.run.color.rgb ELSE None,
      IF a.run.color.type = "theme"
      THEN ThemeSlot(a.presentation, a.run.color.theme_color) ELSE None,
      IF a.paragraph.color.type = "rgb" THEN a.paragraph.color.rgb ELSE None,
      IF a.paragraph.color.type = "theme"
      THEN ThemeSlot(a.presentation, a.paragraph.color.theme_color) ELSE None,
      ThemeSlot(a.presentation, 1)>>

FirstResolved(layers) ==
    LET some == {k \in 1..Len(layers) : layers[k] # None}
    IN  IF some = {} THEN None ELSE layers[Min(some)]

ResolvedCall == call = "get_effective_color" /\ ret # Pending

\* C11: get_effective_color returns the colour of the first layer that
\* resolves, in the order run explicit RGB, run theme index, paragraph
\* explicit RGB, paragraph theme index, theme slot 1; a layer whose lookup
\* fails is skipped, and when no layer resolves the result is None.
C11_FirstResolvingLayerWins ==
    ResolvedCall =>
        /\ ret.value = FirstResolved(Layers(arg))
        /\ ret.value.kind \in {"RGBColor", "None"}

\* C11's case: the run's theme index is past the slots, the paragraph's
\* theme index resolves, and the paragraph's colour is returned.
C11_Witness ==
    /\ ResolvedCall
    /\ arg.run.color.type = "theme"
    /\ arg.run.color.theme_color \notin 1..12
    /\ arg.paragraph.color.type = "theme"
    /\ ret.value # None
    /\ ret.value = arg.presentation.theme.slots[arg.paragraph.color.theme_color]
    /\ ret.value # ThemeSlot(arg.presentation, 1)

\* the colour descriptor that decides the call: the run's when it resolves,
\* else the paragraph's
DecidingColor ==
    IF Layers(arg)[1] # None \/ Layers(arg)[2] # None THEN arg.run.color
    ELSE arg.paragraph.color

\* C24: when the colour that decides the call is a theme index with a
\* brightness offset other than 0, on a slot that is neither black nor
\* white, the returned colour is the slot's colour adjusted by the offset,
\* so it differs from what the same index resolves to without an offset.
C24_BrightnessAdjustsTheSlotColour ==
    ResolvedCall =>
        ((/\ DecidingColor.type = "theme"
          /\ DecidingColor.brightness # 0
          /\ ThemeSlot(arg.presentation, DecidingColor.theme_color)
                 \notin {None, RGBColor(0, 0, 0), RGBColor(255, 255, 255)})
         => ret.value # ThemeSlot(arg.presentation, DecidingColor.theme_color))

(***************************************************************************)
(* Claims about the vocabulary extractor, checked under SpecText on the    *)
(* one paragraph of each vocabulary input.                                 *)
(***************************************************************************)
VocabReturned == call = "extract_vocabulary_from_slide" /\ ret # Pending
VocabParagraph == arg.slide.shapes[2].paragraphs[1]

\* the run is bold, in an emphasis colour, not blank and not filter-excluded
IsEmphasisTerm(run, paragraph, presentation) ==
    /\ run.bold
    /\ strip(run.text) # ""
    /\ is_blue_color(get_effective_color(run, paragraph, presentation))
    /\ ~should_exclude_vocab(strip(run.text))

EmphasisRuns(paragraph, presentation) ==
    {k \in 1..Len(paragraph.runs) :
        IsEmphasisTerm(paragraph.runs[k], paragraph, presentation)}

\* the run is bold, of 2 or 3 words, without the characters .,!?;[]() , not
\* purely numeric, longer than 2 characters and not filter-excluded
IsFallbackTerm(run) ==
    LET text == strip(run.text)
    IN  /\ run.bold
        /\ WordCount(text) \in {2, 3}
        /\ Chars(text) \cap {".", ",", "!", "?", ";", "[", "]", "(", ")"} = {}
        /\ ~isdigit(text)
        /\ Len(text) > 2
        /\ ~should_exclude_vocab(text)

FallbackRuns(paragraph) ==
    {k \in 1..Len(paragraph.runs) : IsFallbackTerm(paragraph.runs[k])}

\* C12: a paragraph whose first run is a bold, emphasis-coloured,
\* non-excluded term T and whose second run is an optional ':' or '-'
\* separator, with any white space around it, followed by a definition D
\* yields exactly the one item (T, D).
C12_TermSeparatorDefinition ==
    VocabReturned =>
        \A sep \in Separators, D \in Definitions :
            (/\ Len(VocabParagraph.runs) = 2
             /\ IsEmphasisTerm(VocabParagraph.runs[1], VocabParagraph, arg.presentation)
             /\ VocabParagraph.runs[2].text = sep \o D)
            => ret.value = << <<strip(VocabParagraph.runs[1].text), D>> >>

\* C12's case: "Osmosis" in bold blue, then ": the movement of water.".
C12_Witness ==
    /\ VocabReturned
    /\ Len(VocabParagraph.runs) = 2
    /\ VocabParagraph.runs[1].text = "Osmosis"
    /\ VocabParagraph.runs[2].text = ": the movement of water."
    /\ ret.value = << <<"Osmosis", "the movement of water.">> >>

\* C13: every vocabulary item has as its term the trimmed text of a bold run
\* that the filter does not exclude, and a definition of trimmed length
\* greater than 3; a paragraph whose bold runs are all filter-excluded
\* yields no item.
C13_TermIsUnfilteredBoldRun ==
    VocabReturned =>
        /\ \A i \in 1..Len(ret.value) :
            /\ \E k \in 1..Len(VocabParagraph.runs) :
                /\ VocabParagraph.runs[k].bold
                /\ strip(VocabParagraph.runs[k].text) = ret.value[i][1]
                /\ ~should_exclude_vocab(strip(VocabParagraph.runs[k].text))
            /\ Len(strip(ret.value[i][2])) > 3
        /\ (\A k \in 1..Len(VocabParagraph.runs) :
                VocabParagraph.runs[k].bold
                    => should_exclude_vocab(strip(VocabParagraph.runs[k].text)))
            => ret.value = <<>>

\* C13's case: the only bold run is "Direct Instruction", a definition
\* follows it, and no item is returned.
C13_Witness ==
    /\ VocabReturned
    /\ Len(VocabParagraph.runs) = 2
    /\ VocabParagraph.runs[1].text = "Direct Instruction"
    /\ VocabParagraph.runs[1].bold
    /\ VocabParagraph.runs[2].text = ": the movement of water."
    /\ ret.value = <<>>

\* C18: when a paragraph has a run that is bold, emphasis-coloured, not
\* blank and not filter-excluded, its term is the first such run; every
\* non-blank run after it, a later qualifying run included, goes to the
\* trailing text; and a paragraph yields at most one item.
C18_FirstEmphasisRunIsTheTerm ==
    VocabReturned =>
        LET E == EmphasisRuns(VocabParagraph, arg.presentation)
            scan == ScanRuns(VocabParagraph, arg.presentation, 1, "", <<>>)
            stripped == [k \in 1..Len(VocabParagraph.runs) |->
                            strip(VocabParagraph.runs[k].text)]
        IN  /\ Len(ret.value) <= 1
            /\ E # {} =>
                /\ scan.vocab_word = stripped[Min(E)]
                /\ scan.definition_parts =
                       Pick(stripped, {k \in (Min(E) + 1)..Len(stripped) : stripped[k] # ""})
                /\ \A i \in 1..Len(ret.value) : ret.value[i][1] = stripped[Min(E)]

\* C18's case: two qualifying runs, the item's term is the first and the
\* second is in its definition.
C18_Witness ==
    /\ VocabReturned
    /\ Cardinality(EmphasisRuns(VocabParagraph, arg.presentation)) = 2
    /\ VocabParagraph.runs[1].text = "Osmosis"
    /\ strip(VocabParagraph.runs[2].text) = "Erosion"
    /\ Len(ret.value) = 1
    /\ ret.value[1][1] = "Osmosis"
    /\ contains(ret.value[1][2], "Erosion")

\* C19: the term of an item is the first emphasis term of the paragraph
\* when there is one, even after an earlier bold run that passes the
\* bold-only test; otherwise it is the first bold run that passes the
\* bold-only test; a paragraph with neither yields no item.
C19_FallbackOnlyWithoutEmphasisTerm ==
    VocabReturned =>
        LET E == EmphasisRuns(VocabParagraph, arg.presentation)
            F == FallbackRuns(VocabParagraph)
        IN  /\ (E = {} /\ F = {}) => ret.value = <<>>
            /\ \A i \in 1..Len(ret.value) :
                   ret.value[i][1] =
                       strip(VocabParagraph.runs[IF E # {} THEN Min(E) ELSE Min(F)].text)

\* C19's case: a bold two-word run in the default colour comes first, an
\* emphasis term second, and the item's term is the second run.
C19_Witness ==
    /\ VocabReturned
    /\ Len(VocabParagraph.runs) = 3
    /\ 1 \in FallbackRuns(VocabParagraph)
    /\ EmphasisRuns(VocabParagraph, arg.presentation) = {2}
    /\ Len(ret.value) = 1
    /\ ret.value[1][1] = strip(VocabParagraph.runs[2].text)

\* C27: no definition of a vocabulary item starts with a separator
\* character (':', '-', en dash, em dash).
C27_DefinitionHasNoLeadingSeparator ==
    VocabReturned =>
        \A n \in 1..Len(ret.value) :
            Char(ret.value[n][2], 0) \notin {":", "-", "{", "}"}

(***************************************************************************)
(* Claims about the section extractors, checked under SpecText on the      *)
(* section inputs.                                                         *)
(***************************************************************************)
SectionsReturned == call = "extract_sections" /\ ret # Pending

\* the lines of the slide's first shape, one per paragraph
FirstShapeLines ==
    [k \in 1..Len(arg.slide.shapes[1].paragraphs) |->
        paragraph_text(arg.slide.shapes[1].paragraphs[k])]

\* the slide is one shape whose first line is header and whose other lines
\* are different members of allowed
HeaderThenLines(header, allowed) ==
    /\ Len(arg.slide.shapes) = 1
    /\ arg.slide.shapes[1].has_text_frame
    /\ Len(FirstShapeLines) > 1
    /\ FirstShapeLines[1] = header
    /\ \A k \in 2..Len(FirstShapeLines) : FirstShapeLines[k] \in allowed
    /\ NoDuplicates(FirstShapeLines)

\* the line without its first character and without the white space around
\* the rest
WithoutLeadingGlyph(line) == strip(slice(line, 1, Len(line)))

\* C14: a slide of one shape whose text is a goals trigger sentence followed
\* by distinct bulleted lines yields exactly those lines in their order,
\* each without its bullet glyph and the white space around the rest.
C14_GoalsAreTheBulletedLines ==
    SectionsReturned =>
        \A t \in GoalsTriggerSentences :
            HeaderThenLines(t, BulletedLines) =>
                ret.value.goals =
                    [k \in 1..(Len(FirstShapeLines) - 1) |->
                        WithoutLeadingGlyph(FirstShapeLines[k + 1])]

\* C14's case: the slide of the spec's example.
C14_Witness ==
    /\ SectionsReturned
    /\ FirstShapeLines = <<"In today's session, you will:", "@ Identify rock types",
                           "- Explain erosion">>
    /\ ret.value.goals = <<"Identify rock types", "Explain erosion">>

\* digits, then '.' or ')', then white space, then the rest: the rest;
\* any other line: the line
Unnumbered(line) ==
    LET d == SpanEnd(line, 0, Digits)
        w == SpanEnd(line, d + 1, Whitespace)
    IN  IF d > 0 /\ d < Len(line) /\ Char(line, d) \in {".", ")"} /\ w > d + 1
        THEN slice(line, w, Len(line)) ELSE line

\* digits followed directly by a space
IsQuantity(line) ==
    LET d == SpanEnd(line, 0, Digits)
    IN  d > 0 /\ d < Len(line) /\ Char(line, d) = " "

\* C15: in each of the four section extractors, on a slide whose shape is
\* the category's trigger followed by lines that start with digits, every
\* item is a line without its list marker (digits, '.' or ')', white
\* space) or a line as it stands; a quantity line is emitted verbatim, and
\* a line with a list marker is never emitted with the marker.
C15_QuantitiesKeptMarkersDropped ==
    SectionsReturned =>
        \A c \in Categories :
            HeaderThenLines(CategoryTrigger[c], NumberedLines) =>
                /\ \A i \in 1..Len(ret.value[c]) :
                       \E k \in 2..Len(FirstShapeLines) :
                           ret.value[c][i] = Unnumbered(FirstShapeLines[k])
                /\ \A k \in 2..Len(FirstShapeLines) :
                    /\ IsQuantity(FirstShapeLines[k])
                           => InList(FirstShapeLines[k], ret.value[c])
                    /\ Unnumbered(FirstShapeLines[k]) # FirstShapeLines[k]
                           => ~InList(FirstShapeLines[k], ret.value[c])
                    /\ FirstShapeLines[k] = "2. Wear goggles"
                           => InList("Wear goggles", ret.value[c])

\* C15's case: the materials trigger, then "2 safety goggles" and
\* "2. Wear goggles".
C15_Witness ==
    /\ SectionsReturned
    /\ FirstShapeLines = <<"Gather the following items:", "2 safety goggles",
                           "2. Wear goggles">>
    /\ ret.value.materials = <<"2 safety goggles", "Wear goggles">>

\* the trigger patterns of a category
TriggerPatterns(c) ==
    CASE c = "goals" -> goals_trigger_patterns
      [] c = "assessments" -> assessments_trigger_patterns
      [] c = "careers" -> careers_trigger_patterns
      [] c = "materials" -> materials_trigger_patterns

\* some shape's flattened text matches a trigger pattern of the category
SomeShapeMatches(c, slide) ==
    \E k \in 1..Len(slide.shapes) :
        /\ slide.shapes[k].has_text_frame
        /\ AnySearch(TriggerPatterns(c), text_frame_text(slide.shapes[k]))

\* C17: a slide on which no shape's text matches a trigger pattern of a
\* category yields the empty list for that category, whatever the other
\* categories find on it.
C17_NoTriggerNoItems ==
    SectionsReturned =>
        \A c \in Categories :
            ~SomeShapeMatches(c, arg.slide) => ret.value[c] = <<>>

\* C17's case: a slide that yields goals and has bulleted lines, without a
\* trigger of the other three categories, yields nothing for them.
C17_Witness ==
    /\ SectionsReturned
    /\ ret.value.goals # <<>>
    /\ \A c \in Categories \ {"goals"} :
           ~SomeShapeMatches(c, arg.slide) /\ ret.value[c] = <<>>

(***************************************************************************)
(* Claims about extract_module_acronym and should_exclude_vocab, checked   *)
(* under SpecText.                                                         *)
(***************************************************************************)
\* the text before the first occurrence of c, the whole text when there is none
UpToFirst(text, c) ==
    slice(text, 0, Min({i \in 0..(Len(text) - 1) : Char(text, i) = c} \cup {Len(text)}))

\* C16: extract_module_acronym returns the leading underscore-delimited
\* segment of the filename without its extension, and "UNKN" when that
\* segment is absent (an empty base name, a name that starts with an
\* underscore).
C16_AcronymIsLeadingSegmentOrUNKN ==
    (call = "extract_module_acronym" /\ ret # Pending) =>
        LET segment == UpToFirst(splitext(arg)[1], "_")
        IN  ret.value = IF segment = "" THEN "UNKN" ELSE segment

\* the normalized form of C20: lower case, every run of characters other
\* than a-z and 0-9 one space, trimmed
Normalized(text) == _normalize_phrase(text)

LeadWords == {"insert", "post", "direct", "procedure", "vocab", "gather", "clean"}

\* C20: should_exclude_vocab is true of every text whose normalized form
\* starts with a placeholder lead word (read here as: whose first word is
\* one).
C20_LeadWordIsExcluded ==
    (call = "should_exclude_vocab" /\ ret # Pending) =>
        (UpToFirst(Normalized(arg), " ") \in LeadWords => ret.value = TRUE)

(***************************************************************************)
(* Claims about the shapes of a slide that follow the shape with the       *)
(* trigger, checked under SpecText on the section inputs.                  *)
(***************************************************************************)
\* the stripped lines of the k-th shape of the slide
ShapeLines(k) ==
    LET lines == split_lines(text_frame_text(arg.slide.shapes[k]))
    IN  [i \in 1..Len(lines) |-> strip(lines[i])]

\* the k-th shape has text, none of it a trigger of category c, on a slide
\* where some shape's text is one
IsContinuationShape(c, k) ==
    /\ SomeShapeMatches(c, arg.slide)
    /\ arg.slide.shapes[k].has_text_frame
    /\ text_frame_text(arg.slide.shapes[k]) # ""
    /\ ~AnySearch(TriggerPatterns(c), text_frame_text(arg.slide.shapes[k]))

\* item is what is left of line after a leading part is taken away
IsRestOf(item, line) ==
    /\ item # ""
    /\ Len(item) <= Len(line)
    /\ slice(line, Len(line) - Len(item), Len(line)) = item

\* the line starts with a bullet glyph, or with digits, '.' or ')' and
\* white space
HasListMarker(line) == StartsWithBullet(line) \/ Unnumbered(line) # line

\* C21: on a slide where some shape matches a careers (materials) trigger,
\* every line of a shape without a trigger that starts with a bullet or a
\* number marker is an item of extract_careers (extract_session_materials),
\* without its marker.
C21_ContinuationLinesAreItems ==
    SectionsReturned =>
        \A c \in {"careers", "materials"} :
            \A k \in 1..Len(arg.slide.shapes) :
                IsContinuationShape(c, k) =>
                    \A i \in 1..Len(ShapeLines(k)) :
                        HasListMarker(ShapeLines(k)[i]) =>
                            \E n \in 1..Len(ret.value[c]) :
                                IsRestOf(ret.value[c][n], ShapeLines(k)[i])

\* C22: on a slide with a goals (assessments) trigger, every line of a
\* shape without a trigger that is longer than 10 characters, holds no skip
\* term or trigger echo (as none of ContinuationLines does) and starts with
\* a bullet or a number marker is an item of extract_session_goals
\* (extract_assessments), without its marker: the two accept the same lines.
C22_GoalsAcceptWhatAssessmentsAccept ==
    SectionsReturned =>
        \A c \in {"goals", "assessments"} :
            \A k \in 1..Len(arg.slide.shapes) :
                IsContinuationShape(c, k) =>
                    \A i \in 1..Len(ShapeLines(k)) :
                        (/\ ShapeLines(k)[i] \in ContinuationLines
                         /\ Len(ShapeLines(k)[i]) > 10
                         /\ HasListMarker(ShapeLines(k)[i])) =>
                            \E n \in 1..Len(ret.value[c]) :
                                IsRestOf(ret.value[c][n], ShapeLines(k)[i])

(***************************************************************************)
(* Claims about the text around the trigger in the shape that holds it,    *)
(* checked under SpecText on the section inputs.                           *)
(***************************************************************************)
\* the lines of the slide's one shape that match a trigger of category c
TriggerLines(c) ==
    {i \in 1..Len(FirstShapeLines) : AnySearch(TriggerPatterns(c), FirstShapeLines[i])}

\* the text after the first ':' of the line, trimmed
AfterColon(line) ==
    strip(slice(line, Len(UpToFirst(line, ":")) + 1, Len(line)))

\* C23: when one line of a shape matches a trigger of a category and goes
\* on after a colon, the text after the colon is emitted as (the end of) an
\* item taken from that line, and no item is taken from a line before it.
C23_CutAtTheEndOfTheMatch ==
    SectionsReturned =>
        \A c \in Categories :
            (/\ Len(arg.slide.shapes) = 1
             /\ arg.slide.shapes[1].has_text_frame
             /\ Cardinality(TriggerLines(c)) = 1) =>
                LET i == CHOOSE i \in TriggerLines(c) : TRUE
                    line == FirstShapeLines[i]
                IN  /\ Len(AfterColon(line)) > 3 =>
                           \E n \in 1..Len(ret.value[c]) :
                               /\ IsRestOf(AfterColon(line), ret.value[c][n])
                               /\ IsRestOf(ret.value[c][n], line)
                    /\ \A j \in 1..(i - 1) : \A n \in 1..Len(ret.value[c]) :
                           ~IsRestOf(ret.value[c][n], FirstShapeLines[j])

\* C25: in each of the four section extractors, on a slide whose one shape
\* is the category's trigger followed by lines, every item is taken from a
\* line whose trimmed length is more than 3; a line of 3 characters or less
\* yields no item.
C25_ShortLinesAreNotEmitted ==
    SectionsReturned =>
        \A c \in Categories :
            (/\ Len(arg.slide.shapes) = 1
             /\ arg.slide.shapes[1].has_text_frame
             /\ FirstShapeLines # <<>>
             /\ FirstShapeLines[1] = CategoryTrigger[c]) =>
                \A n \in 1..Len(ret.value[c]) :
                    \E k \in 2..Len(FirstShapeLines) :
                        /\ Len(strip(FirstShapeLines[k])) > 3
                        /\ IsRestOf(ret.value[c][n], strip(FirstShapeLines[k]))

\* C26: no item of any section extractor starts with a bullet glyph or
\* with a numeric list marker (digits, '.' or ')', white space), in
\* whichever order the line carried the two.
C26_NoItemKeepsAListDecoration ==
    SectionsReturned =>
        \A c \in Categories : \A n \in 1..Len(ret.value[c]) :
            ~HasListMarker(ret.value[c][n])

\* C28: the list each section extractor returns for a slide holds no string
\* twice, also when two shapes of the slide carry the same item.
C28_NoItemTwiceOnASlide ==
    SectionsReturned =>
        \A c \in Categories : NoDuplicates(ret.value[c])

\* C28's case: the goals trigger and an item in one shape, the same item
\* in a second shape, and the item is returned once.
C28_Witness ==
    /\ SectionsReturned
    /\ Len(arg.slide.shapes) = 2
    /\ ShapeLines(1) = <<"Session Goals", "@ Identify rock types">>
    /\ ShapeLines(2) = <<"@ Identify rock types">>
    /\ ret.value.goals = <<"Identify rock types">>

(***************************************************************************)
(* A claim about the running lists during the pass over a deck's slides,   *)
(* checked under Spec.                                                     *)
(***************************************************************************)
IsPrefixOf(a, b) == Len(a) <= Len(b) /\ SubSeq(b, 1, Len(a)) = a

\* C29: every step of the pass over a deck's slides leaves the running
\* vocabulary, goals, assessments and materials lists as prefixes of their
\* new values, so the value after a slide is a prefix of the value after
\* every later slide of the pass.
C29_ListsGrowByAppending ==
    [][(pc = "slides" /\ pc' = "slides") =>
           /\ IsPrefixOf(all_vocabulary, all_vocabulary')
           /\ IsPrefixOf(session_goals, session_goals')
           /\ IsPrefixOf(assessments, assessments')
           /\ IsPrefixOf(materials, materials')]_vars

\* C29's case: after two slides with content of every category the four
\* lists start with what the first slide left and have grown, while the
\* careers of the first slide are gone.
C29_Witness ==
    /\ AfterPrefix
    /\ Len(Prefix) = 2
    /\ \A c \in {"vocabulary", "goals", "assessments", "materials"} :
           Extracted[Prefix[2]][c] # <<>>
    /\ IsPrefixOf(Extracted[Prefix[1]].vocabulary, all_vocabulary)
    /\ IsPrefixOf(Extracted[Prefix[1]].goals, session_goals)
    /\ IsPrefixOf(Extracted[Prefix[1]].materials, materials)
    /\ Len(session_goals) > Len(Extracted[Prefix[1]].goals)
    /\ Len(materials) > Len(Extracted[Prefix[1]].materials)
    /\ Extracted[Prefix[1]].careers # <<>>
    /\ ~IsPrefixOf(Extracted[Prefix[1]].careers, careers)

(***************************************************************************)
(* A claim about the cut point in a shape that matches several triggers,   *)
(* checked under SpecText on the section inputs.                           *)
(***************************************************************************)
\* the text of the slide's one shape
FirstShapeText == text_frame_text(arg.slide.shapes[1])

\* the patterns of category c, by position in the list, that match the text
MatchingPatterns(c) ==
    {k \in 1..Len(TriggerPatterns(c)) :
        re_search(TriggerPatterns(c)[k], FirstShapeText) # NoMatch}

\* the end of the match of the first pattern of the list that matches
FirstListedEnd(c) == re_search(TriggerPatterns(c)[Min(MatchingPatterns(c))], FirstShapeText)

\* item is taken from one of the lines of text
TakenFrom(item, text) ==
    \E i \in 1..Len(split_lines(text)) : IsRestOf(item, strip(split_lines(text)[i]))

\* C30: when the text of a shape matches trigger patterns of goals
\* (assessments), every item of the shape is taken from a line after the
\* end of the match of the first pattern in list order that matches, and
\* none from the text before it, even where a pattern later in the list
\* matches earlier in the text.
C30_CutAtFirstListedPattern ==
    SectionsReturned =>
        \A c \in {"goals", "assessments"} :
            (/\ Len(arg.slide.shapes) = 1
             /\ arg.slide.shapes[1].has_text_frame
             /\ MatchingPatterns(c) # {}) =>
                \A n \in 1..Len(ret.value[c]) :
                    /\ TakenFrom(ret.value[c][n],
                                 slice(FirstShapeText, FirstListedEnd(c), Len(FirstShapeText)))
                    /\ ~TakenFrom(ret.value[c][n],
                                  slice(FirstShapeText, 0, FirstListedEnd(c)))

\* C30's case: "Session Goals" and an item, then "In this session, you
\* will:", which stands earlier in the list, and a second item: the second
\* item alone is returned.
C30_Witness ==
    /\ SectionsReturned
    /\ FirstShapeLines = <<"Session Goals", "@ Identify rock types",
                           "In this session, you will:", "- Explain erosion">>
    /\ Cardinality(MatchingPatterns("goals")) = 2
    /\ ret.value.goals = <<"Explain erosion">>

====
